---- MODULE Spec2Model ----
(***************************************************************************)
(* Vocal mastering chain of label-in-a-box: the limiter, compressor,       *)
(* de-esser and spectral stages, the process_vocal composer and the        *)
(* run_clean_mix handler that calls it.                                    *)
(*                                                                         *)
(* Arithmetic.  The code computes in floating point; the model computes    *)
(* in fixed point with SCALE units per 1.0 (products stay below 2^31).     *)
(* Decibel values are carried in tenths of a dB, times in tenths of a      *)
(* millisecond.  A sequence s models a numpy array; At(s, k) is s[k] of    *)
(* the code (zero based).                                                  *)
(***************************************************************************)
EXTENDS Integers, Sequences, FiniteSets, TLC

VARIABLES
    lim,    \* a call of apply_limiter of src/limiter.py, statement by statement
    call,   \* a call of one stage function, as a whole
    dees,   \* a call of apply_deesser of src/deesser.py, window by window
    fin,    \* lines 75-81 of process_vocal: normalize and the 0.8 dB reduction
    mix,    \* a request to run_clean_mix and the process_vocal call it makes
    sess,   \* calls of the stage functions on one AudioSegment, interleaved
    hp,     \* a call of high_pass_filter, statement by statement
    rl,     \* RateLimiterMiddleware, its buckets and the clock
    fde,    \* a call of apply_deesser of src/backend/dsp/deesser.py, statement by statement
    orch,   \* ProjectOrchestrator calls on one project.json: the event loop and a worker thread
    voice,  \* the voice debounce cache of src/main.py and the clock
    path,   \* the path resolution of run_clean_mix, a string being a sequence of characters
    proj    \* POST /projects/save: the project files of one user and the last response

vars == <<lim, call, dees, fin, mix, sess, hp, rl, fde, orch, voice, path, proj>>

(***************************************************************************)
(* Bounds of the model.                                                    *)
(***************************************************************************)
MaxLimLen == 4

\* The longest buffer a transform is taken of.
MaxFftLen == 36

SCALE == 10 * 1000

\* The int16 sample values the limiter's input buffers are drawn from.
LimSampleValues == {-32768, 0, 3000, 20000}

\* frame_rate values of the limiter's input; int(sr * 0.0015) is 1 and 3,
\* int(sr * 0.001) is 1 (no smoothing) and 2 (smoothing).
LimSampleRates == {1000, 2000}

\* ceiling argument, in tenths of a dB: -1.0 dB (the default), -6.0 dB, 0 dB,
\* and +0.8 dB, a ceiling above full scale that the inter-sample estimate of
\* three full-scale samples, 1.1, exceeds.
LimCeilings == {-10, -60, 0, 8}

(***************************************************************************)
(* Numeric helpers.                                                        *)
(***************************************************************************)
Abs(x) == IF x < 0 THEN -x ELSE x

Sign(x) == IF x < 0 THEN -1 ELSE 1

Max2(a, b) == IF a >= b THEN a ELSE b

Min2(a, b) == IF a <= b THEN a ELSE b

At(s, k) == s[k + 1]

\* The array with the elements of s, each computed once.
Array(s) == SubSeq(s, 1, Len(s))

\* np.clip(x, -32768, 32767)
ClipInt16(x) == Min2(32767, Max2(-32768, x))

\* Python's int(): truncation toward zero of num / den, den > 0.
TruncDiv(num, den) == Sign(num) * (Abs(num) \div den)

\* a * b / c truncated toward zero, for |a| <= c; the product is formed
\* directly where it stays below 2^31 and through a / c otherwise.
MulDiv(a, b, c) ==
    IF Abs(a) = 0 \/ Abs(b) <= 2147483647 \div Abs(a)
    THEN Sign(a) * Sign(b) * ((Abs(a) * Abs(b)) \div c)
    ELSE Sign(a) * Sign(b) * ((((Abs(a) * SCALE) \div c) * Abs(b)) \div SCALE)

\* a * b of two fixed-point values, rounded to the nearest unit.
Mul(a, b) == Sign(a) * Sign(b) * ((Abs(a) * Abs(b) + SCALE \div 2) \div SCALE)

\* a / b of two fixed-point values, b # 0, rounded to the nearest unit.
Div(a, b) == Sign(a) * Sign(b) * ((Abs(a) * SCALE + Abs(b) \div 2) \div Abs(b))

RECURSIVE SeqSum(_)
SeqSum(s) == IF s = <<>> THEN 0 ELSE Head(s) + SeqSum(Tail(s))

RECURSIVE SeqMaxAbs(_)
SeqMaxAbs(s) == IF s = <<>> THEN 0 ELSE Max2(Abs(Head(s)), SeqMaxAbs(Tail(s)))

\* s[a:b] of the code: the elements at the zero-based positions a .. b-1.
Slice(s, a, b) == IF b <= a THEN <<>> ELSE SubSeq(s, a + 1, b)

\* np.mean of a non-empty array of fixed-point values.
Mean(s) == SeqSum(s) \div Len(s)

\* All sequences over S of length lo .. hi.
SeqsOf(S, lo, hi) == UNION {[1..n -> S] : n \in lo..hi}

\* exp(x) for a fixed-point x >= 0, by its power series (16 terms).
RECURSIVE ExpSeries(_, _, _)
ExpSeries(x, k, term) ==
    IF k > 16 \/ term = 0 THEN 0
    ELSE term + ExpSeries(x, k + 1, (term * x + (k * SCALE) \div 2) \div (k * SCALE))

ExpPos(x) == ExpSeries(x, 1, SCALE)

\* exp(-x) for a fixed-point x >= 0.
ExpNeg(x) == Div(SCALE, ExpPos(x))

\* 10 ** (db / 20), db given in tenths of a dB: exp(db * ln(10) / 20).
DbToLinear(dbT) ==
    LET x == (Abs(dbT) * 1151293 + 5000) \div 10000
    IN IF dbT >= 0 THEN ExpPos(x) ELSE ExpNeg(x)

\* np.exp(-1.0 / (sr * (ms / 1000.0))), ms given in tenths of a millisecond.
TimeCoeff(sr, msT) == ExpNeg((10000 * SCALE) \div (sr * msT))

(***************************************************************************)
(* numpy.fft.rfft / irfft / rfftfreq and numpy.hanning, as the stages use  *)
(* them.  A spectrum is a sequence of bins [re, im]; bin k (zero based)    *)
(* of an n-sample buffer is at k * sr / n Hz.                              *)
(***************************************************************************)
\* cos(x) for a fixed-point 0 <= x <= pi/2, by its power series.
RECURSIVE CosSeries(_, _, _)
CosSeries(x, k, term) ==
    IF k > 9 \/ term = 0 THEN 0
    ELSE term - CosSeries(x, k + 1, (((term * x) \div ((2 * k - 1) * SCALE)) * x) \div (2 * k * SCALE))

\* cos(2 pi a / (4 m)) for 0 <= a <= m: an angle of the first quadrant.
CosFirstQuadrant(a, m) ==
    IF a = 0 THEN SCALE
    ELSE IF a = m THEN 0
    ELSE IF 2 * a = m THEN 7071
    ELSE CosSeries((62832 * a) \div (4 * m), 1, SCALE)

\* cos(2 pi j / m), any integer j, m >= 1.
CosTurn(j, m) ==
    LET a == (4 * j) % (4 * m)
    IN IF a <= m THEN CosFirstQuadrant(a, m)
       ELSE IF a <= 2 * m THEN -CosFirstQuadrant(2 * m - a, m)
       ELSE IF a <= 3 * m THEN -CosFirstQuadrant(a - 2 * m, m)
       ELSE CosFirstQuadrant(4 * m - a, m)

\* sin(2 pi j / m) = cos(2 pi j / m - pi / 2)
SinTurn(j, m) ==
    LET a == (4 * j - m) % (4 * m)
    IN IF a <= m THEN CosFirstQuadrant(a, m)
       ELSE IF a <= 2 * m THEN -CosFirstQuadrant(2 * m - a, m)
       ELSE IF a <= 3 * m THEN -CosFirstQuadrant(a - 2 * m, m)
       ELSE CosFirstQuadrant(4 * m - a, m)

\* The number of bins of rfft of n samples.
RfftBins(n) == n \div 2 + 1

\* The number of samples irfft returns for m bins when no length is passed.
IrfftLen(m) == 2 * (m - 1)

\* The twiddle factors of the transforms of up to MaxFftLen samples:
\* CosTable[n][j + 1] = cos(2 pi j / n), SinTable[n][j + 1] = sin(2 pi j / n).
CosTable == [n \in 1..MaxFftLen |-> [j \in 1..n |-> CosTurn(j - 1, n)]]

SinTable == [n \in 1..MaxFftLen |-> [j \in 1..n |-> SinTurn(j - 1, n)]]

Cos(j, n) == CosTable[n][(j % n) + 1]

Sin(j, n) == SinTable[n][(j % n) + 1]

\* np.fft.rfft(x), x a non-empty sequence.
Rfft(x) ==
    LET n == Len(x)
    IN Array([b \in 1..RfftBins(n) |->
                [re |-> SeqSum([t \in 1..n |-> Mul(x[t], Cos((b - 1) * (t - 1), n))]),
                 im |-> -SeqSum([t \in 1..n |-> Mul(x[t], Sin((b - 1) * (t - 1), n))])]])

\* np.fft.irfft(X) for m = Len(X) >= 2 bins: IrfftLen(m) samples; the
\* imaginary parts of the first and the last bin are not used.
Irfft(X) ==
    LET m == Len(X)
        n == IrfftLen(m)
    IN Array([t \in 1..n |->
                TruncDiv(X[1].re
                         + SeqSum([b \in 1..(m - 2) |->
                                      2 * (Mul(X[b + 1].re, Cos(b * (t - 1), n))
                                           - Mul(X[b + 1].im, Sin(b * (t - 1), n)))])
                         + X[m].re * (IF (t - 1) % 2 = 0 THEN 1 ELSE -1),
                         n)])

\* np.fft.rfftfreq(n, d = 1.0 / sr)[k], in Hz as a fixed-point value.
BinFreq(k, n, sr) == (k * sr * SCALE) \div n

\* np.hanning(n)[k]: 0.5 - 0.5 cos(2 pi k / (n - 1)); np.hanning(1) is [1.0].
Hanning(k, n) ==
    IF n = 1 THEN SCALE ELSE (SCALE - Cos(k, n - 1)) \div 2

\* fft *= gains, bin by bin.
ScaleBins(X, gains) ==
    Array([b \in 1..Len(X) |-> [re |-> Mul(X[b].re, gains[b]), im |-> Mul(X[b].im, gains[b])]])

\* exp(-x) for any fixed-point x >= 0: exp(-x) = exp(-x/2)^2 beyond 2.0.
RECURSIVE ExpNegBig(_)
ExpNegBig(x) ==
    IF x <= 2 * SCALE THEN ExpNeg(x)
    ELSE LET h == ExpNegBig(x \div 2) IN Mul(h, h)

\* The largest r with r * r <= n, for lo * lo <= n < hi * hi.
RECURSIVE IsqrtBetween(_, _, _)
IsqrtBetween(n, lo, hi) ==
    IF hi - lo <= 1 THEN lo
    ELSE LET mid == (lo + hi) \div 2
         IN IF mid * mid <= n THEN IsqrtBetween(n, mid, hi) ELSE IsqrtBetween(n, lo, mid)

\* np.sqrt(v) of a fixed-point 0 <= v <= 4.0.
Sqrt(v) == IsqrtBetween(v * SCALE, 0, 2 * SCALE + 1)

\* The largest x in lo .. hi-1 with exp(x) <= y.
RECURSIVE LnBetween(_, _, _)
LnBetween(y, lo, hi) ==
    IF hi - lo <= 1 THEN lo
    ELSE LET mid == (lo + hi) \div 2
         IN IF ExpPos(mid) <= y THEN LnBetween(y, mid, hi) ELSE LnBetween(y, lo, mid)

\* ln(y) of a fixed-point 1.0 <= y < e^3.
Ln(y) == LnBetween(y, 0, 3 * SCALE)

\* base ** e of fixed-point values, base >= 1.0.
Pow(base, e) ==
    IF e = 0 THEN SCALE
    ELSE IF e > 0 THEN ExpPos(Mul(e, Ln(base)))
    ELSE ExpNegBig(Mul(-e, Ln(base)))

\* The results of a stage call: the returned samples, or the exception.
Returned(out) == [status |-> "returned", error |-> "", out |-> out]

Raised(error) == [status |-> "raised", error |-> error, out |-> <<>>]

\* 1.0 + (gain_linear - 1.0) * exp(-(dist ** 2) / (2 * (bandwidth / 2) ** 2))
\* at bin k of an n-sample buffer: dist = |k * sr / n - center|, bandwidth =
\* center / q (q in tenths).  exp(-x) is below 1e-7 past dist = 3 bandwidth.
Bell(k, n, sr, center, gain_dbT, qT) ==
    LET dist_over_bw == (((Abs(k * sr - center * n) * qT) \div n) * SCALE) \div (center * 10)
    IN IF (Abs(k * sr - center * n) * qT) \div n > 3 * center * 10
       THEN SCALE
       ELSE SCALE + Mul(DbToLinear(gain_dbT) - SCALE,
                        ExpNegBig((2 * dist_over_bw * dist_over_bw) \div SCALE))

(***************************************************************************)
(* np.fft.rfftfreq(n, d = 1.0 / frame_rate): the frequencies are computed   *)
(* in IEEE 754 binary64, freqs[k] = k * (1.0 / (n * (1.0 / frame_rate))),   *)
(* each operation rounded to nearest, ties to even.  A positive binary64    *)
(* value is [m, e], the number m * 2^e; m is a natural number of exactly    *)
(* 53 bits, held in limbs of 15 bits, least significant first.              *)
(***************************************************************************)
Limb == 2 ^ 15

RECURSIVE BigTrim(_)
BigTrim(a) ==
    IF Len(a) > 0 /\ a[Len(a)] = 0 THEN BigTrim(SubSeq(a, 1, Len(a) - 1)) ELSE a

RECURSIVE BigOfInt(_)
BigOfInt(x) == IF x = 0 THEN <<>> ELSE <<x % Limb>> \o BigOfInt(x \div Limb)

\* The limbs i .. of a * n + carry, for n below 2^15.
RECURSIVE BigTimes(_, _, _, _)
BigTimes(a, n, i, carry) ==
    IF i > Len(a) THEN BigOfInt(carry)
    ELSE LET v == a[i] * n + carry
         IN <<v % Limb>> \o BigTimes(a, n, i + 1, v \div Limb)

BigMulSmall(a, n) == BigTrim(BigTimes(a, n, 1, 0))

BigAddSmall(a, x) == BigTrim(BigTimes(a, 1, 1, x))

RECURSIVE BigLessFrom(_, _, _)
BigLessFrom(a, b, i) ==
    IF i = 0 THEN FALSE
    ELSE IF a[i] # b[i] THEN a[i] < b[i]
    ELSE BigLessFrom(a, b, i - 1)

BigLess(a, b) == IF Len(a) # Len(b) THEN Len(a) < Len(b) ELSE BigLessFrom(a, b, Len(a))

\* The limbs i .. of a - b, for a >= b.
RECURSIVE BigMinus(_, _, _, _)
BigMinus(a, b, i, borrow) ==
    IF i > Len(a) THEN <<>>
    ELSE LET v == a[i] - (IF i <= Len(b) THEN b[i] ELSE 0) - borrow
         IN <<(v + Limb) % Limb>> \o BigMinus(a, b, i + 1, IF v < 0 THEN 1 ELSE 0)

BigSub(a, b) == BigTrim(BigMinus(a, b, 1, 0))

\* Quotient and remainder of the limbs 1 .. i of a, led by r, by n <= 2^15.
RECURSIVE BigDivFrom(_, _, _, _)
BigDivFrom(a, n, i, r) ==
    IF i = 0 THEN [q |-> <<>>, r |-> r]
    ELSE LET v == r * Limb + a[i]
             rest == BigDivFrom(a, n, i - 1, v % n)
         IN [q |-> rest.q \o <<v \div n>>, r |-> rest.r]

BigDivSmall(a, n) ==
    LET d == BigDivFrom(a, n, Len(a), 0) IN [q |-> BigTrim(d.q), r |-> d.r]

RECURSIVE BitLen(_)
BitLen(x) == IF x = 0 THEN 0 ELSE 1 + BitLen(x \div 2)

BigBits(a) == IF Len(a) = 0 THEN 0 ELSE (Len(a) - 1) * 15 + BitLen(a[Len(a)])

\* a * 2^s
RECURSIVE BigShiftLeft(_, _)
BigShiftLeft(a, s) ==
    IF s >= 15 THEN BigShiftLeft(IF Len(a) = 0 THEN a ELSE <<0>> \o a, s - 15)
    ELSE BigMulSmall(a, 2 ^ s)

\* floor(a / 2^s), and whether bits were dropped.
RECURSIVE BigShiftRight(_, _)
BigShiftRight(a, s) ==
    IF Len(a) = 0 THEN [q |-> a, dropped |-> FALSE]
    ELSE IF s >= 15
    THEN LET rest == BigShiftRight(SubSeq(a, 2, Len(a)), s - 15)
         IN [q |-> rest.q, dropped |-> rest.dropped \/ a[1] # 0]
    ELSE LET d == BigDivSmall(a, 2 ^ s) IN [q |-> d.q, dropped |-> d.r # 0]

\* The binary64 nearest to a * 2^e (to a value just above it when sticky),
\* ties to even; a has at least 55 bits when sticky.
Round53(a, e, sticky) ==
    LET s == BigBits(a) - 53
    IN IF s <= 0 THEN [m |-> BigShiftLeft(a, 0 - s), e |-> e + s]
       ELSE LET t == BigShiftRight(a, s - 1)
                half == t.q[1] % 2 = 1
                q == BigDivSmall(t.q, 2).q
                odd == q[1] % 2 = 1
                up == half /\ (t.dropped \/ sticky \/ odd)
                m == IF up THEN BigAddSmall(q, 1) ELSE q
            IN IF BigBits(m) > 53 THEN [m |-> BigDivSmall(m, 2).q, e |-> e + s + 1]
               ELSE [m |-> m, e |-> e + s]

\* 1.0 / x for a positive int x <= 2^15.
FloatRecipInt(x) ==
    LET d == BigDivSmall(BigShiftLeft(<<1>>, 70), x)
    IN Round53(d.q, 0 - 70, d.r # 0)

\* n * x for a positive int n < 2^15.
FloatTimesInt(n, x) == Round53(BigMulSmall(x.m, n), x.e, FALSE)

\* After j steps 2^(51 + j) = Q * m + R with R < m.
RECURSIVE BigRecipLoop(_, _, _, _)
BigRecipLoop(R, Q, m, steps) ==
    IF steps = 0 THEN [q |-> Q, r |-> R]
    ELSE LET R2 == BigMulSmall(R, 2)
             ge == ~BigLess(R2, m)
             R3 == IF ge THEN BigSub(R2, m) ELSE R2
             Q3 == BigAddSmall(BigMulSmall(Q, 2), IF ge THEN 1 ELSE 0)
         IN IF Len(R3) + Len(Q3) >= 0               \* R3 and Q3 are computed here
            THEN BigRecipLoop(R3, Q3, m, steps - 1)
            ELSE [q |-> Q, r |-> R]

\* 1.0 / x for a binary64 x.
FloatRecip(x) ==
    LET d == BigRecipLoop(BigShiftLeft(<<1>>, 51), <<>>, x.m, 57)
    IN Round53(d.q, 0 - 108 - x.e, Len(d.r) # 0)

\* val = 1.0 / (n * d), with d = 1.0 / frame_rate.
RfftFreqVal(n, sr) == FloatRecip(FloatTimesInt(n, FloatRecipInt(sr)))

\* val for the frame rates and the buffer lengths of the model, computed once.
RfftFreqValuesAt(sr) == Array([n \in 1..MaxFftLen |-> RfftFreqVal(n, sr)])

RfftFreqTable ==
    (1000 :> RfftFreqValuesAt(1000)) @@ (2000 :> RfftFreqValuesAt(2000))
    @@ (20000 :> RfftFreqValuesAt(20000)) @@ (44100 :> RfftFreqValuesAt(44100))

\* freqs[k] of np.fft.rfftfreq(n, d = 1.0 / sr), for k >= 1.
rfftfreq(k, n, sr) ==
    FloatTimesInt(k, IF sr \in DOMAIN RfftFreqTable /\ n <= MaxFftLen
                     THEN RfftFreqTable[sr][n]
                     ELSE RfftFreqVal(n, sr))

\* x < c for a binary64 x and an int c.
FloatLessInt(x, c) ==
    IF c <= 0 \/ x.e >= 0 THEN FALSE
    ELSE BigLess(x.m, BigShiftLeft(BigOfInt(c), 0 - x.e))

\* x > c for a binary64 x >= 0 and an int c >= 0.
FloatGreaterInt(x, c) ==
    IF x.e >= 0 THEN TRUE
    ELSE BigLess(BigShiftLeft(BigOfInt(c), 0 - x.e), x.m)

\* freqs[k] < cutoff, with freqs = np.fft.rfftfreq(n, d = 1.0 / sr); freqs[0]
\* is 0.0.
FreqBelow(k, n, sr, cutoff) ==
    IF k = 0 THEN 0 < cutoff ELSE FloatLessInt(rfftfreq(k, n, sr), cutoff)

(***************************************************************************)
(* src/backend/dsp/filters.py: high_pass_filter(audio, cutoff).            *)
(***************************************************************************)
\* fft[freqs < cutoff] = 0, with the frequencies np.fft.rfftfreq computes.
HighPassBins(X, n, sr, cutoff) ==
    Array([b \in 1..Len(X) |->
              IF FreqBelow(b - 1, n, sr, cutoff) THEN [re |-> 0, im |-> 0] ELSE X[b]])

high_pass_filter(samples, sr, cutoff) ==
    IF Len(samples) = 0 THEN Raised("ValueError")             \* np.fft.rfft of no samples
    ELSE IF sr = 0 THEN Raised("ZeroDivisionError")           \* 1.0 / audio.frame_rate
    ELSE IF IrfftLen(RfftBins(Len(samples))) < 1 THEN Raised("ValueError")  \* np.fft.irfft
    ELSE Returned(Irfft(HighPassBins(Rfft(samples), Len(samples), sr, cutoff)))

(***************************************************************************)
(* src/backend/dsp/deesser.py: apply_deesser(audio, threshold_db,          *)
(* reduction_db), the FFT de-esser.  The transform is taken of the raw     *)
(* samples, so a bin and the threshold are in sample units.                *)
(***************************************************************************)
\* s_region = (freqs >= 5000) & (freqs <= 10000), as the set of the
\* one-based bins in it (line 20).
SibilanceRegion(n, sr) ==
    {b \in 1..RfftBins(n) :
        /\ ~FreqBelow(b - 1, n, sr, 5000)
        /\ b = 1 \/ ~FloatGreaterInt(rfftfreq(b - 1, n, sr), 10000)}

\* np.abs(X) > 10 ** (threshold_db / 20), the threshold taken in tenths.
BinAbove(X, threshold_db) ==
    (X.re * X.re + X.im * X.im) * 100
        > (DbToLinear(threshold_db) \div (SCALE \div 10)) * (DbToLinear(threshold_db) \div (SCALE \div 10))

\* The bin X times 10 ** (reduction_db / 20).
BinReduced(X, reduction_db) ==
    [re |-> Mul(X.re, DbToLinear(reduction_db)), im |-> Mul(X.im, DbToLinear(reduction_db))]

\* Line 23 and the right-hand side of line 24: fft[s_region] is a new array,
\* whose bins above the threshold are multiplied by reduction.
ReducedCopy(X, n, sr, threshold_db, reduction_db) ==
    [b \in SibilanceRegion(n, sr) |->
        IF BinAbove(X[b], threshold_db) THEN BinReduced(X[b], reduction_db) ELSE X[b]]

\* fft after line 24, fft[s_region][mask] *= reduction: indexing with the
\* boolean array s_region makes a copy, the multiplication is stored in the
\* copy, and fft keeps the bins of the transform.
SpectrumAfterReduction(X, n, sr, threshold_db, reduction_db) == X

(***************************************************************************)
(* src/eq.py: apply_eq(audio).                                             *)
(***************************************************************************)
\* samples * np.hanning(len(samples))
HannWindowed(samples) ==
    Array([k \in 1..Len(samples) |-> Mul(samples[k], Hanning(k - 1, Len(samples)))])

\* gain_curve: the product of the five bells, per bin.
EqGainCurve(m, n, sr) ==
    [b \in 1..m |->
        Mul(Mul(Mul(Mul(Bell(b - 1, n, sr, 150, 30, 15),
                        Bell(b - 1, n, sr, 300, -20, 20)),
                    Bell(b - 1, n, sr, 500, -30, 20)),
                Bell(b - 1, n, sr, 2500, 25, 15)),
            Bell(b - 1, n, sr, 8000, 40, 20))]

\* filtered * (reference_peak / filtered_peak), unless filtered_peak is 0.
PeakNormalize(filtered, reference_peak) ==
    LET filtered_peak == SeqMaxAbs(filtered)
    IN IF filtered_peak > 0
       THEN Array([k \in 1..Len(filtered) |->
                      MulDiv(filtered[k], reference_peak, filtered_peak)])
       ELSE filtered

apply_eq(samples, sr) ==
    IF Len(samples) = 0 THEN Raised("ValueError")             \* np.fft.rfft of no samples
    ELSE IF sr = 0 THEN Raised("ZeroDivisionError")           \* 1.0 / audio.frame_rate
    ELSE IF IrfftLen(RfftBins(Len(samples))) < 1 THEN Raised("ValueError")  \* np.fft.irfft
    ELSE LET n == Len(samples)
             fft == Rfft(HannWindowed(samples))
             filtered == Irfft(ScaleBins(fft, EqGainCurve(Len(fft), n, sr)))
         IN Returned(PeakNormalize(filtered, SeqMaxAbs(samples)))

(***************************************************************************)
(* src/backend/dsp/dsp_chain.py: soft_clip_saturation(audio, drive).       *)
(***************************************************************************)
\* np.tanh(x) of a fixed-point x.
Tanh(x) ==
    LET e == ExpPos(2 * Abs(x))
    IN Sign(x) * Div(e - SCALE, e + SCALE)

\* drive is a fixed-point value (1.015 is 10150).
soft_clip_saturation(samples, drive) ==
    Returned(Array([k \in 1..Len(samples) |->
                      TruncDiv(Tanh(TruncDiv(samples[k] * drive, 32768)) * 32768, SCALE)]))

(***************************************************************************)
(* src/backend/dsp/compressor.py: apply_compression(audio, threshold,      *)
(* ratio, attack, release).  threshold is in tenths of a dB, ratio is a    *)
(* fixed-point value, attack and release are in tenths of a millisecond.   *)
(***************************************************************************)
\* samples / max_val if max_val > 0, else samples.
CompNormalize(samples, max_val) ==
    IF max_val > 0
    THEN Array([k \in 1..Len(samples) |->
                   Sign(samples[k]) * ((Abs(samples[k]) * SCALE) \div max_val)])
    ELSE samples

\* int(sr * 0.01), at least 1.
RmsWindowSize(sr) == Max2(1, sr \div 100)

\* rms_values[i]: np.sqrt(np.mean(window ** 2)) over the centred window.
CompRms(samples_norm, sr, i) ==
    LET half == RmsWindowSize(sr) \div 2
        window == Slice(samples_norm, Max2(0, i - half), Min2(Len(samples_norm), i + half))
    IN Sqrt(Mean([k \in 1..Len(window) |-> Mul(window[k], window[k])]))

\* The envelope follower's step (lines 60-63).
CompEnvelope(envelope, rms, sr, attack, release) ==
    IF rms > envelope
    THEN Mul(TimeCoeff(sr, attack), envelope) + Mul(SCALE - TimeCoeff(sr, attack), rms)
    ELSE Mul(TimeCoeff(sr, release), envelope) + Mul(SCALE - TimeCoeff(sr, release), rms)

\* knee_width_linear = 10 ** (3.0 / 20)
KneeWidthLinear == DbToLinear(30)

\* A gain stage that applies gain_reduction itself, not its reciprocal.
CompGainExpand(envelope, threshold_linear, ratio) ==
    LET knee_start == Div(threshold_linear, KneeWidthLinear)
        knee_end == Mul(threshold_linear, KneeWidthLinear)
    IN IF envelope < knee_start THEN SCALE
       ELSE IF envelope < knee_end
       THEN LET over == Div(envelope, knee_start)
                knee_ratio == SCALE + Mul(ratio - SCALE,
                                          Div(envelope - knee_start, knee_end - knee_start))
            IN Pow(over, SCALE - Div(SCALE, knee_ratio))
       ELSE Pow(Div(envelope, threshold_linear), SCALE - Div(SCALE, ratio))

\* The soft-knee gain of an envelope value (lines 66-86).
CompGain(envelope, threshold_linear, ratio) ==
    LET knee_start == Div(threshold_linear, KneeWidthLinear)
        knee_end == Mul(threshold_linear, KneeWidthLinear)
    IN IF envelope < knee_start THEN SCALE
       ELSE IF envelope < knee_end
       THEN LET over == Div(envelope, knee_start)
                knee_ratio == SCALE + Mul(ratio - SCALE,
                                          Div(envelope - knee_start, knee_end - knee_start))
                gain_reduction == Pow(over, SCALE - Div(SCALE, knee_ratio))
            IN Div(SCALE, gain_reduction)
       ELSE LET over == Div(envelope, threshold_linear)
                gain_reduction == Pow(over, SCALE - Div(SCALE, ratio))
            IN Div(SCALE, gain_reduction)

\* The envelope after the loop steps 0 .. i (lines 58-63).
RECURSIVE CompEnvelopeAt(_, _, _, _, _)
CompEnvelopeAt(samples_norm, sr, attack, release, i) ==
    CompEnvelope(IF i = 0 THEN 0 ELSE CompEnvelopeAt(samples_norm, sr, attack, release, i - 1),
                 CompRms(samples_norm, sr, i), sr, attack, release)

\* gain[i] for every sample (lines 58-86).
CompGains(samples_norm, sr, threshold, ratio, attack, release) ==
    Array([k \in 1..Len(samples_norm) |->
              CompGain(CompEnvelopeAt(samples_norm, sr, attack, release, k - 1),
                       DbToLinear(threshold), ratio)])

\* compressed = samples_norm * gain, times max_val if max_val > 0 (lines 88-91).
CompApply(samples_norm, gain, max_val) ==
    Array([k \in 1..Len(samples_norm) |->
              IF max_val > 0
              THEN Sign(samples_norm[k])
                   * ((Mul(Abs(samples_norm[k]), gain[k]) * max_val) \div SCALE)
              ELSE Mul(samples_norm[k], gain[k])])

\* The +1.0 dB bell at 3 kHz, Q 2, per bin (lines 105-109).
CompensationBell(m, n, sr) == [b \in 1..m |-> Bell(b - 1, n, sr, 3000, 10, 20)]

\* Lines 93-129: Hann window, bell, inverse FFT, peak normalisation, clip.
CompCompensate(compressed, sr) ==
    LET n == Len(compressed)
        fft == Rfft(HannWindowed(compressed))
        compensated == Irfft(ScaleBins(fft, CompensationBell(Len(fft), n, sr)))
        normalized == PeakNormalize(compensated, SeqMaxAbs(compressed))
    IN Array([k \in 1..Len(normalized) |-> ClipInt16(normalized[k])])

apply_compression(samples, sr, threshold, ratio, attack, release) ==
    IF Len(samples) = 0 THEN Raised("ValueError")             \* np.max of no samples
    ELSE IF sr = 0 \/ attack = 0 \/ release = 0
    THEN Raised("ZeroDivisionError")                          \* -1.0 / (sr * (attack / 1000.0))
    ELSE IF IrfftLen(RfftBins(Len(samples))) < 1 THEN Raised("ValueError")  \* np.fft.irfft
    ELSE LET max_val == SeqMaxAbs(samples)
             samples_norm == CompNormalize(samples, max_val)
             gain == CompGains(samples_norm, sr, threshold, ratio, attack, release)
         IN Returned(CompCompensate(CompApply(samples_norm, gain, max_val), sr))

(***************************************************************************)
(* src/limiter.py: apply_limiter(audio, ceiling).                          *)
(***************************************************************************)
\* samples / max_val, per sample.
Normalize(samples, max_val) ==
    Array([k \in 1..Len(samples) |->
              Sign(samples[k]) * ((Abs(samples[k]) * SCALE) \div max_val)])

\* int(sr * 0.0015), at least 1.
LookaheadSamples(sr) == Max2(1, (sr * 15) \div 10000)

\* np.pad(samples_norm, (0, lookahead_samples)).
PadZeros(s, n) == s \o [k \in 1..n |-> 0]

InterPeakMargin(inter_peak) == (inter_peak * 11) \div 10

estimate_true_peak(signal, idx) ==
    IF idx = 0 THEN Abs(At(signal, 0))
    ELSE IF idx >= Len(signal) - 1 THEN Abs(signal[Len(signal)])
    ELSE LET a == Abs(At(signal, idx - 1))
             b == Abs(At(signal, idx))
             c == Abs(At(signal, idx + 1))
             peak == Max2(a, Max2(b, c))
             inter_peak == (a + b + c) \div 3
         IN Max2(peak, InterPeakMargin(inter_peak))

LimAttackCoeff(sr) == TimeCoeff(sr, 5)

LimReleaseCoeff(sr) == TimeCoeff(sr, 300)

LimRecoveryCoeff(sr) == TimeCoeff(sr, 100)

\* coeff * gain + (1 - coeff) * target
Blend(coeff, gain, target) == Mul(coeff, gain) + Mul(SCALE - coeff, target)

\* true_peak of loop step i (lines 79-83).
LimTruePeak(samples_norm, sr, i) ==
    LET L == LookaheadSamples(sr)
        padded == PadZeros(samples_norm, L)
    IN IF i + L < Len(padded)
       THEN estimate_true_peak(padded, i + L)
       ELSE estimate_true_peak(samples_norm, Min2(i, Len(samples_norm) - 1))

\* current_level of loop step i (line 93).
LimCurrentLevel(samples_norm, sr, i) ==
    LET L == LookaheadSamples(sr)
        padded == PadZeros(samples_norm, L)
    IN IF i + L < Len(padded)
       THEN Abs(At(padded, i + L))
       ELSE Abs(At(samples_norm, Min2(i, Len(samples_norm) - 1)))

\* An attack branch without the cap of line 90.
LimAttackUncapped(sr, gain_reduction, ceiling_linear, true_peak) ==
    Blend(LimAttackCoeff(sr), gain_reduction, Div(ceiling_linear, true_peak))

\* The gain after the attack branch (lines 87-90).
LimAttack(sr, gain_reduction, ceiling_linear, true_peak) ==
    LET required_reduction == Div(ceiling_linear, true_peak)
    IN Min2(Blend(LimAttackCoeff(sr), gain_reduction, required_reduction),
            required_reduction)

\* A recovery branch that chooses the coefficient by the level alone.
LimRecoverByLevel(sr, gain_reduction, ceiling_linear, current_level) ==
    IF current_level < (ceiling_linear * 3) \div 10
    THEN Blend(LimRecoveryCoeff(sr), gain_reduction, SCALE)
    ELSE Blend(LimReleaseCoeff(sr), gain_reduction, SCALE)

\* The gain after the recovery/release branch (lines 93-101).
LimRecover(sr, gain_reduction, ceiling_linear, current_level) ==
    LET quiet_threshold == (ceiling_linear * 3) \div 10
    IN IF current_level < quiet_threshold /\ gain_reduction < (SCALE * 99) \div 100
       THEN Blend(LimRecoveryCoeff(sr), gain_reduction, SCALE)
       ELSE Blend(LimReleaseCoeff(sr), gain_reduction, SCALE)

\* One iteration of the loop of lines 77-105: the new gain_reduction.
LimStepGain(samples_norm, sr, ceiling_linear, gain_reduction, i) ==
    LET true_peak == LimTruePeak(samples_norm, sr, i)
        g == IF true_peak > ceiling_linear
             THEN LimAttack(sr, gain_reduction, ceiling_linear, true_peak)
             ELSE LimRecover(sr, gain_reduction, ceiling_linear,
                             LimCurrentLevel(samples_norm, sr, i))
    IN Min2(SCALE, Max2(0, g))

\* A smoothing that adds the gains of the window up.
SmoothGainSum(gain, sr) ==
    LET smooth_window == sr \div 1000
        half == smooth_window \div 2
    IN IF smooth_window > 1
       THEN Array([k \in 1..Len(gain) |->
                      SeqSum(Slice(gain, Max2(0, (k - 1) - half),
                                   Min2(Len(gain), (k - 1) + half)))])
       ELSE gain

\* The moving average of lines 108-115 (also src/deesser.py lines 94-101).
SmoothGain(gain, sr) ==
    LET smooth_window == sr \div 1000
        half == smooth_window \div 2
    IN IF smooth_window > 1
       THEN Array([k \in 1..Len(gain) |->
                      Mean(Slice(gain, Max2(0, (k - 1) - half),
                                 Min2(Len(gain), (k - 1) + half)))])
       ELSE gain

\* samples_norm * gain * max_val, clipped, cast to int16 (lines 118-127).
ApplyGain(samples_norm, gain, max_val) ==
    Array([k \in 1..Len(samples_norm) |->
              ClipInt16(Sign(samples_norm[k])
                        * ((((Abs(samples_norm[k]) * gain[k]) \div SCALE) * max_val)
                           \div SCALE))])

(***************************************************************************)
(* src/deesser.py: apply_deesser(audio, freq_start, freq_end, threshold).  *)
(* threshold is in tenths of a dB.                                         *)
(***************************************************************************)
\* window_size = int(sr * 0.01), at least 1.
DeesWindowSize(sr) == Max2(1, sr \div 100)

\* hop_size = int(sr * 0.01) // 4, at least 1.
DeesHopSize(sr) == Max2(1, (sr \div 100) \div 4)

\* range(0, len(samples_norm) - window_size, hop_size), as a sequence.
DeesWindowStarts(n, sr) ==
    LET last == n - DeesWindowSize(sr)
        count == IF last <= 0 THEN 0 ELSE (last + DeesHopSize(sr) - 1) \div DeesHopSize(sr)
    IN [w \in 1..count |-> (w - 1) * DeesHopSize(sr)]

\* band_fft[~band_mask] = 0: the bins outside freq_start .. freq_end.  For the
\* windows of 10 and 20 samples that int(sr * 0.01) gives at the frame rates
\* of the model, np.fft.rfftfreq returns the frequencies k * sr / n exactly.
BandBins(X, n, sr, freq_start, freq_end) ==
    [b \in 1..Len(X) |->
        IF (b - 1) * sr >= freq_start * n /\ (b - 1) * sr <= freq_end * n
        THEN X[b] ELSE [re |-> 0, im |-> 0]]

\* combined_level of the window starting at i (lines 53-73).
DeesCombinedLevel(samples_norm, sr, freq_start, freq_end, i) ==
    LET window == Slice(samples_norm, i, i + DeesWindowSize(sr))
        band_signal == Irfft(BandBins(Rfft(window), Len(window), sr, freq_start, freq_end))
        band_rms == Sqrt(Mean([k \in 1..Len(band_signal) |-> Mul(band_signal[k], band_signal[k])]))
        band_peak == SeqMaxAbs(band_signal)
    IN Mul(6000, band_rms) + Mul(4000, band_peak)

\* reduction_linear = 10 ** (-4.0 / 20)
DeesReductionLinear == DbToLinear(-40)

\* release_coeff = exp(-1 / (sr * 25 ms))
DeesReleaseCoeff(sr) == TimeCoeff(sr, 250)

\* The release stage (lines 76-79).
DeesDetect(detected_level, combined_level, sr) ==
    IF combined_level > detected_level THEN combined_level
    ELSE Mul(DeesReleaseCoeff(sr), detected_level)
         + Mul(SCALE - DeesReleaseCoeff(sr), combined_level)

\* reduction_factor (lines 84-86).
DeesReductionFactor(detected_level, threshold_linear) ==
    LET over_threshold == Div(detected_level, threshold_linear)
    IN SCALE - Mul(SCALE - DeesReductionLinear,
                   Min2(SCALE, Mul(over_threshold - SCALE, 6000)))

\* A reduction that reaches only the first hop_size samples of the window.
DeesReduceHop(gain_reduction, detected_level, threshold_linear, sr, i) ==
    IF detected_level > threshold_linear
    THEN Array([k \in 1..Len(gain_reduction) |->
                   IF (k - 1) >= i /\ (k - 1) < Min2(i + DeesHopSize(sr), Len(gain_reduction))
                   THEN Min2(gain_reduction[k],
                             DeesReductionFactor(detected_level, threshold_linear))
                   ELSE gain_reduction[k]])
    ELSE gain_reduction

\* A reduction that stores reduction_factor over the window, whatever the
\* gain an earlier window left there.
DeesReduceAssign(gain_reduction, detected_level, threshold_linear, sr, i) ==
    IF detected_level > threshold_linear
    THEN Array([k \in 1..Len(gain_reduction) |->
                   IF (k - 1) >= i /\ (k - 1) < Min2(i + DeesWindowSize(sr), Len(gain_reduction))
                   THEN DeesReductionFactor(detected_level, threshold_linear)
                   ELSE gain_reduction[k]])
    ELSE gain_reduction

\* Lines 82-90: the gain curve after the window starting at i.
DeesReduce(gain_reduction, detected_level, threshold_linear, sr, i) ==
    IF detected_level > threshold_linear
    THEN Array([k \in 1..Len(gain_reduction) |->
                   IF (k - 1) >= i /\ (k - 1) < Min2(i + DeesWindowSize(sr), Len(gain_reduction))
                   THEN Min2(gain_reduction[k],
                             DeesReductionFactor(detected_level, threshold_linear))
                   ELSE gain_reduction[k]])
    ELSE gain_reduction

\* One iteration of the loop of lines 52-90 on [detected_level, gain_reduction].
DeesWindowStep(st, samples_norm, sr, freq_start, freq_end, threshold, i) ==
    LET detected == DeesDetect(st.detected_level,
                               DeesCombinedLevel(samples_norm, sr, freq_start, freq_end, i), sr)
    IN [detected_level |-> detected,
        gain_reduction |-> DeesReduce(st.gain_reduction, detected, DbToLinear(threshold), sr, i)]

\* The loop state after the first w windows.
RECURSIVE DeesAfterWindows(_, _, _, _, _, _)
DeesAfterWindows(samples_norm, sr, freq_start, freq_end, threshold, w) ==
    IF w = 0
    THEN [detected_level |-> 0, gain_reduction |-> [k \in 1..Len(samples_norm) |-> SCALE]]
    ELSE DeesWindowStep(DeesAfterWindows(samples_norm, sr, freq_start, freq_end, threshold, w - 1),
                        samples_norm, sr, freq_start, freq_end, threshold,
                        DeesWindowStarts(Len(samples_norm), sr)[w])

apply_deesser(samples, sr, freq_start, freq_end, threshold) ==
    IF Len(samples) = 0 THEN Raised("ValueError")             \* np.max of no samples
    ELSE IF SeqMaxAbs(samples) = 0 THEN Returned(samples)     \* silent audio
    ELSE IF sr = 0 THEN Raised("ZeroDivisionError")           \* -1.0 / (sr * (release_ms / 1000.0))
    ELSE LET max_val == SeqMaxAbs(samples)
             samples_norm == Normalize(samples, max_val)
             windows == DeesWindowStarts(Len(samples), sr)
             st == DeesAfterWindows(samples_norm, sr, freq_start, freq_end, threshold, Len(windows))
         IN Returned(ApplyGain(samples_norm, SmoothGain(st.gain_reduction, sr), max_val))

(***************************************************************************)
(* apply_limiter of src/limiter.py as one call.                            *)
(***************************************************************************)
\* gain_reduction after the loop steps 0 .. i.
RECURSIVE LimGainAt(_, _, _, _)
LimGainAt(samples_norm, sr, ceiling_linear, i) ==
    LimStepGain(samples_norm, sr, ceiling_linear,
                IF i = 0 THEN SCALE ELSE LimGainAt(samples_norm, sr, ceiling_linear, i - 1), i)

apply_limiter(samples, sr, ceiling) ==
    IF Len(samples) = 0 THEN Returned(samples)
    ELSE IF SeqMaxAbs(samples) = 0 THEN Returned(samples)     \* silent audio
    ELSE IF sr = 0 THEN Raised("ZeroDivisionError")           \* -1.0 / (sr * (attack_ms / 1000.0))
    ELSE LET max_val == SeqMaxAbs(samples)
             samples_norm == Normalize(samples, max_val)
             gain_history == Array([k \in 1..Len(samples) |->
                                       LimGainAt(samples_norm, sr, DbToLinear(ceiling), k - 1)])
         IN Returned(ApplyGain(samples_norm, SmoothGain(gain_history, sr), max_val))

(***************************************************************************)
(* The components at rest.  A specification moves one component and leaves  *)
(* the others as they are here.                                             *)
(***************************************************************************)
NoResult == [status |-> "none", error |-> "", out |-> <<>>]

LimIdle ==
    [pc |-> "idle", samples |-> <<>>, sr |-> 1000, ceiling |-> 0, i |-> 0,
     gain_reduction |-> SCALE, gain_history |-> <<>>, output |-> <<>>]

CallIdle ==
    [pc |-> "idle", stage |-> "", samples |-> <<>>, sr |-> 1000, cutoff |-> 80,
     drive |-> SCALE, threshold |-> 0, ratio |-> SCALE, attack |-> 100, release |-> 800,
     freq_start |-> 0, freq_end |-> 0, ceiling |-> 0, result |-> NoResult]

DeesIdle ==
    [pc |-> "idle", samples |-> <<>>, sr |-> 1000, freq_start |-> 0, freq_end |-> 0,
     threshold |-> 0, w |-> 0, detected_level |-> 0, gain_reduction |-> <<>>,
     triggered |-> {}, reductions |-> {}, output |-> <<>>]

FinIdle == [pc |-> "idle", samples |-> <<>>, output |-> <<>>]

MixIdle ==
    [pc |-> "idle", plan |-> "", vocal_file |-> "", beat_file |-> "",
     vocal |-> [blocks |-> <<>>, rate |-> 0, channels |-> 0],
     beat |-> [blocks |-> 0, rate |-> 0, channels |-> 0],
     input |-> [n |-> 0, rate |-> 0, channels |-> 0],
     buf |-> [n |-> 0, rate |-> 0, channels |-> 0], next |-> 1, ran |-> <<>>,
     dsp |-> [status |-> "none", error |-> "", stage |-> ""], response |-> "",
     processed_written |-> FALSE, mix_written |-> FALSE, stage_updated |-> FALSE]

FdeIdle ==
    [pc |-> "idle", samples |-> <<>>, sr |-> 0, threshold_db |-> 0, reduction_db |-> 0,
     fft |-> <<>>, copy |-> <<>>, spectrum |-> <<>>, result |-> NoResult]

\* project.json of the session: absent, holding a project, empty (opened
\* for writing and not yet written), or holding text that is not JSON.
NoFile == [kind |-> "absent"]

EmptyFile == [kind |-> "empty"]

GarbageFile == [kind |-> "garbage"]

OrchThreadIdle ==
    [pc |-> "idle", stage_name |-> "", payload |-> <<>>, project_data |-> NoFile,
     before |-> NoFile, unlinked |-> FALSE, result |-> "none"]

OrchIdle ==
    [threads |-> FALSE, file |-> NoFile, now |-> 0, ops |-> 0,
     loop |-> OrchThreadIdle, worker |-> OrchThreadIdle,
     busy |-> [updates |-> <<>>, resets |-> 0]]

VoiceIdle ==
    [now |-> 0, cache |-> <<>>, accepted |-> <<>>, calls |-> 0,
     last |-> [key |-> "", now |-> 0, spoke |-> FALSE, cached |-> FALSE]]

PathIdle == [pc |-> "idle", input |-> <<>>, resolved |-> <<>>, again |-> <<>>]

ProjIdle ==
    [plan |-> "", files |-> {}, saves |-> 0,
     last |-> [projectId |-> "", before |-> {}, status |-> 0, project_id |-> ""]]

HpIdle ==
    [pc |-> "idle", samples |-> <<>>, sr |-> 1000, cutoff |-> 80, fft |-> <<>>,
     masked |-> <<>>, result |-> NoResult]

RlIdle ==
    [now |-> 0, buckets |-> <<>>,
     window |-> [ip |-> "", start |-> 0, passed |-> 0, refused |-> 0]]

\* The callers that hold a reference to the same AudioSegment.
SessThreads == {1, 2}

SessIdle ==
    [audio |-> [samples |-> <<>>, sr |-> 1000], original |-> <<>>,
     thread |-> [t \in SessThreads |-> CallIdle], log |-> <<>>, calls |-> 0]

(***************************************************************************)
(* apply_limiter of src/limiter.py, statement by statement.                *)
(***************************************************************************)
\* A call apply_limiter(audio, ceiling) is made.
LimInit ==
    /\ lim \in {[LimIdle EXCEPT !.pc = "call", !.samples = s, !.sr = r, !.ceiling = c] :
                   s \in SeqsOf(LimSampleValues, 0, MaxLimLen),
                   r \in LimSampleRates, c \in LimCeilings}
    /\ call = CallIdle
    /\ dees = DeesIdle
    /\ fin = FinIdle
    /\ mix = MixIdle
    /\ sess = SessIdle
    /\ hp = HpIdle
    /\ rl = RlIdle
    /\ fde = FdeIdle
    /\ orch = OrchIdle
    /\ voice = VoiceIdle
    /\ path = PathIdle
    /\ proj = ProjIdle

\* Lines 17-28 and 73-75: the early returns, and the loop's initial state.
LimEnter ==
    /\ lim.pc = "call"
    /\ IF Len(lim.samples) = 0 \/ SeqMaxAbs(lim.samples) = 0
       THEN lim' = [lim EXCEPT !.pc = "done", !.output = lim.samples]
       ELSE lim' = [lim EXCEPT !.pc = "loop", !.i = 0, !.gain_reduction = SCALE,
                               !.gain_history = [k \in 1..Len(lim.samples) |-> SCALE]]
    /\ UNCHANGED <<call, dees, fin, mix, sess, hp, rl, fde, orch, voice, path, proj>>

\* Lines 77-105: one iteration of the look-ahead loop.
LimLoopStep ==
    /\ lim.pc = "loop"
    /\ lim.i < Len(lim.samples)
    /\ LET max_val == SeqMaxAbs(lim.samples)
           g == LimStepGain(Normalize(lim.samples, max_val), lim.sr,
                            DbToLinear(lim.ceiling), lim.gain_reduction, lim.i)
       IN lim' = [lim EXCEPT !.gain_reduction = g,
                             !.gain_history[lim.i + 1] = g,
                             !.i = lim.i + 1]
    /\ UNCHANGED <<call, dees, fin, mix, sess, hp, rl, fde, orch, voice, path, proj>>

\* Lines 107-127: smoothing, gain application, rescaling, hard clip.
LimFinish ==
    /\ lim.pc = "loop"
    /\ lim.i = Len(lim.samples)
    /\ LET max_val == SeqMaxAbs(lim.samples)
           smoothed == SmoothGain(lim.gain_history, lim.sr)
       IN lim' = [lim EXCEPT !.pc = "done", !.gain_history = smoothed,
                             !.output = ApplyGain(Normalize(lim.samples, max_val),
                                                  smoothed, max_val)]
    /\ UNCHANGED <<call, dees, fin, mix, sess, hp, rl, fde, orch, voice, path, proj>>

LimNext == LimEnter \/ LimLoopStep \/ LimFinish

SpecLimiter == LimInit /\ [][LimNext]_vars

(***************************************************************************)
(* One call of a stage function.  The arguments are drawn from the values   *)
(* the function's signature admits, the valid and the invalid ones.         *)
(***************************************************************************)
\* The longest buffer a stage is called with.
MaxStageLen == 4

\* Sample values of the buffers; no sum a stage forms of them leaves int16.
StageSampleValues == {0, 12000, -30000}

\* audio.frame_rate; 0 is the frame rate no decoder produces.
StageSampleRates == {0, 1000, 2000}

\* cutoff of high_pass_filter, in Hz.
Cutoffs == {80, 300, -80}

\* ratio of apply_compression: 0.5, 1.0 and the 4.0 process_vocal passes.
Ratios == {SCALE \div 2, SCALE, 4 * SCALE}

\* threshold of apply_compression, in tenths of a dB.
CompThresholds == {-180, -60}

\* attack of apply_compression, in tenths of a millisecond.
Attacks == {100, 50}

StageCalls ==
    {[CallIdle EXCEPT !.pc = "call", !.stage = "high_pass_filter", !.cutoff = c] :
        c \in Cutoffs}
    \cup {[CallIdle EXCEPT !.pc = "call", !.stage = "apply_eq"]}
    \cup {[CallIdle EXCEPT !.pc = "call", !.stage = "soft_clip_saturation", !.drive = 10150]}
    \cup {[CallIdle EXCEPT !.pc = "call", !.stage = "apply_compression",
                           !.threshold = t, !.ratio = r, !.attack = a] :
            t \in CompThresholds, r \in Ratios, a \in Attacks}
    \cup {[CallIdle EXCEPT !.pc = "call", !.stage = "apply_deesser",
                           !.freq_start = 400, !.freq_end = 500, !.threshold = -250]}
    \cup {[CallIdle EXCEPT !.pc = "call", !.stage = "apply_limiter", !.ceiling = c] :
            c \in LimCeilings}

CallInit ==
    /\ call \in {[c EXCEPT !.samples = s, !.sr = r] :
                    c \in StageCalls,
                    s \in SeqsOf(StageSampleValues, 0, MaxStageLen),
                    r \in StageSampleRates}
    /\ lim = LimIdle
    /\ dees = DeesIdle
    /\ fin = FinIdle
    /\ mix = MixIdle
    /\ sess = SessIdle
    /\ hp = HpIdle
    /\ rl = RlIdle
    /\ fde = FdeIdle
    /\ orch = OrchIdle
    /\ voice = VoiceIdle
    /\ path = PathIdle
    /\ proj = ProjIdle

CallReturn(result) ==
    /\ call' = [call EXCEPT !.pc = "done", !.result = result]
    /\ UNCHANGED <<lim, dees, fin, mix, sess, hp, rl, fde, orch, voice, path, proj>>

CallHighPass ==
    /\ call.pc = "call" /\ call.stage = "high_pass_filter"
    /\ CallReturn(high_pass_filter(call.samples, call.sr, call.cutoff))

CallEq ==
    /\ call.pc = "call" /\ call.stage = "apply_eq"
    /\ CallReturn(apply_eq(call.samples, call.sr))

CallSaturation ==
    /\ call.pc = "call" /\ call.stage = "soft_clip_saturation"
    /\ CallReturn(soft_clip_saturation(call.samples, call.drive))

CallCompression ==
    /\ call.pc = "call" /\ call.stage = "apply_compression"
    /\ CallReturn(apply_compression(call.samples, call.sr, call.threshold, call.ratio,
                                    call.attack, call.release))

CallDeesser ==
    /\ call.pc = "call" /\ call.stage = "apply_deesser"
    /\ CallReturn(apply_deesser(call.samples, call.sr, call.freq_start, call.freq_end,
                                call.threshold))

CallLimiter ==
    /\ call.pc = "call" /\ call.stage = "apply_limiter"
    /\ CallReturn(apply_limiter(call.samples, call.sr, call.ceiling))

CallNext ==
    \/ CallHighPass
    \/ CallEq
    \/ CallSaturation
    \/ CallCompression
    \/ CallDeesser
    \/ CallLimiter

SpecStages == CallInit /\ [][CallNext]_vars

(***************************************************************************)
(* apply_deesser of src/deesser.py, window by window.                      *)
(***************************************************************************)
\* The input buffers are made of up to MaxDeesBlocks blocks of DeesBlockLen
\* samples.
MaxDeesBlocks == 4

DeesBlockLen == 8

\* A block is silence, a constant level, or a tone at half the frame rate,
\* loud or faint.
DeesBlockKinds == {"zero", "dc", "sib", "faint"}

\* The sample at the zero-based position p of a block of the given kind.
DeesBlockSample(kind, p) ==
    CASE kind = "zero" -> 0
      [] kind = "dc" -> 6000
      [] kind = "sib" -> IF p % 2 = 0 THEN 20000 ELSE -20000
      [] kind = "faint" -> IF p % 2 = 0 THEN 400 ELSE -400

DeesBuffer(kinds) ==
    [p \in 1..(Len(kinds) * DeesBlockLen) |->
        DeesBlockSample(kinds[((p - 1) \div DeesBlockLen) + 1], p - 1)]

\* frame_rate values: the windows are 10 and 20 samples long; the 1 ms gain
\* smoothing is off at the first and on at the second.
DeesSampleRates == {1000, 2000}

\* threshold, in tenths of a dB.
DeesThresholds == {-250, -60}

\* The detection band holds the two highest bins of a window: freq_end is
\* half the frame rate, freq_start four fifths of that.
DeesInit ==
    /\ dees \in {[DeesIdle EXCEPT !.pc = "call", !.samples = DeesBuffer(kinds), !.sr = r,
                                  !.freq_start = (2 * r) \div 5, !.freq_end = r \div 2,
                                  !.threshold = t] :
                    kinds \in SeqsOf(DeesBlockKinds, 1, MaxDeesBlocks),
                    r \in DeesSampleRates, t \in DeesThresholds}
    /\ lim = LimIdle
    /\ call = CallIdle
    /\ fin = FinIdle
    /\ mix = MixIdle
    /\ sess = SessIdle
    /\ hp = HpIdle
    /\ rl = RlIdle
    /\ fde = FdeIdle
    /\ orch = OrchIdle
    /\ voice = VoiceIdle
    /\ path = PathIdle
    /\ proj = ProjIdle

\* Lines 16-49: the silent-audio return, and the loop's initial state.
DeesEnter ==
    /\ dees.pc = "call"
    /\ IF SeqMaxAbs(dees.samples) = 0
       THEN dees' = [dees EXCEPT !.pc = "done", !.output = dees.samples,
                                 !.gain_reduction = [k \in 1..Len(dees.samples) |-> SCALE]]
       ELSE dees' = [dees EXCEPT !.pc = "loop", !.w = 0, !.detected_level = 0,
                                 !.gain_reduction = [k \in 1..Len(dees.samples) |-> SCALE]]
    /\ UNCHANGED <<lim, call, fin, mix, sess, hp, rl, fde, orch, voice, path, proj>>

\* Lines 52-90: one iteration of the loop over the windows; triggered
\* records the windows whose detected_level is above threshold_linear, and
\* reductions the reduction_factor computed for each of them.
DeesWindow ==
    /\ dees.pc = "loop"
    /\ dees.w < Len(DeesWindowStarts(Len(dees.samples), dees.sr))
    /\ LET i == DeesWindowStarts(Len(dees.samples), dees.sr)[dees.w + 1]
           st == DeesWindowStep([detected_level |-> dees.detected_level,
                                 gain_reduction |-> dees.gain_reduction],
                                Normalize(dees.samples, SeqMaxAbs(dees.samples)),
                                dees.sr, dees.freq_start, dees.freq_end, dees.threshold, i)
       IN dees' = [dees EXCEPT
                      !.w = dees.w + 1,
                      !.detected_level = st.detected_level,
                      !.gain_reduction = st.gain_reduction,
                      !.triggered = IF st.detected_level > DbToLinear(dees.threshold)
                                    THEN dees.triggered \cup {i}
                                    ELSE dees.triggered,
                      !.reductions =
                          IF st.detected_level > DbToLinear(dees.threshold)
                          THEN dees.reductions
                               \cup {[i |-> i,
                                      reduction_factor |->
                                          DeesReductionFactor(st.detected_level,
                                                              DbToLinear(dees.threshold))]}
                          ELSE dees.reductions]
    /\ UNCHANGED <<lim, call, fin, mix, sess, hp, rl, fde, orch, voice, path, proj>>

\* Lines 92-113: smoothing, gain application, rescaling, clip, cast.
DeesFinish ==
    /\ dees.pc = "loop"
    /\ dees.w = Len(DeesWindowStarts(Len(dees.samples), dees.sr))
    /\ LET max_val == SeqMaxAbs(dees.samples)
           smoothed == SmoothGain(dees.gain_reduction, dees.sr)
       IN dees' = [dees EXCEPT !.pc = "done", !.gain_reduction = smoothed,
                               !.output = ApplyGain(Normalize(dees.samples, max_val),
                                                    smoothed, max_val)]
    /\ UNCHANGED <<lim, call, fin, mix, sess, hp, rl, fde, orch, voice, path, proj>>

DeesNext == DeesEnter \/ DeesWindow \/ DeesFinish

SpecDeesser == DeesInit /\ [][DeesNext]_vars

(***************************************************************************)
(* src/backend/dsp/dsp_chain.py, lines 73-81: pydub's normalize with its    *)
(* default headroom of 0.1 dB, then the 0.8 dB reduction, on the buffer    *)
(* the limiter returned.                                                    *)
(***************************************************************************)
\* The longest buffer of the final steps.
MaxFinLen == 3

\* Sample values the limiter's output can hold: its peak is at most
\* 10 ** (-1.0 / 20) * 32767 = 29204.
FinSampleValues == {0, 100, -20000, 29204}

\* AudioSegment.max_possible_amplitude of 16-bit audio.
MaxPossibleAmplitude == 32768

\* pydub.effects.normalize(seg, headroom = 0.1): the gain target_peak / peak
\* with target_peak = max_possible_amplitude * 10 ** (-0.1 / 20), applied by
\* audioop.mul, which floors and clips; a silent segment is returned as is.
normalize(samples) ==
    LET peak == SeqMaxAbs(samples)
        target_peak == (MaxPossibleAmplitude * DbToLinear(-1)) \div SCALE
    IN IF peak = 0 THEN samples
       ELSE Array([k \in 1..Len(samples) |->
                      ClipInt16((samples[k] * target_peak) \div peak)])

\* headroom_reduction = 10 ** (-0.8 / 20)
HeadroomReduction == DbToLinear(-8)

\* Lines 78-81: samples * headroom_reduction, cast to the array type.
ReduceHeadroom(samples) ==
    Array([k \in 1..Len(samples) |-> TruncDiv(samples[k] * HeadroomReduction, SCALE)])

FinInit ==
    /\ fin \in {[FinIdle EXCEPT !.pc = "limited", !.samples = s] :
                   s \in SeqsOf(FinSampleValues, 1, MaxFinLen)}
    /\ lim = LimIdle
    /\ call = CallIdle
    /\ dees = DeesIdle
    /\ mix = MixIdle
    /\ sess = SessIdle
    /\ hp = HpIdle
    /\ rl = RlIdle
    /\ fde = FdeIdle
    /\ orch = OrchIdle
    /\ voice = VoiceIdle
    /\ path = PathIdle
    /\ proj = ProjIdle

\* Line 75: final_mix = normalize(final_mix)
FinNormalize ==
    /\ fin.pc = "limited"
    /\ fin' = [fin EXCEPT !.pc = "normalized", !.output = normalize(fin.samples)]
    /\ UNCHANGED <<lim, call, dees, mix, sess, hp, rl, fde, orch, voice, path, proj>>

\* Lines 78-83: the 0.8 dB reduction, and the return.
FinReduce ==
    /\ fin.pc = "normalized"
    /\ fin' = [fin EXCEPT !.pc = "done", !.output = ReduceHeadroom(fin.output)]
    /\ UNCHANGED <<lim, call, dees, mix, sess, hp, rl, fde, orch, voice, path, proj>>

FinNext == FinNormalize \/ FinReduce

SpecFinal == FinInit /\ [][FinNext]_vars

(***************************************************************************)
(* src/main.py: run_clean_mix, and the process_vocal call it makes         *)
(* (src/backend/dsp/dsp_chain.py).  Audio is carried by its shape: the      *)
(* vocal is a sequence of blocks of BlockMs milliseconds, each voiced       *)
(* ("v"), low ("l": peak above -60 dBFS, level below -45 dBFS) or           *)
(* digital silence ("z"); a buffer is its number of samples n (frames       *)
(* times channels), its frame rate and its channel count.                   *)
(***************************************************************************)
\* strip_silence(vocal, silence_len=800, silence_thresh=-45)
silence_len == 800

\* padding of pydub's strip_silence, left at its default by the call.
padding == 100

\* The crossfade strip_silence joins the chunks with: padding / 2.
crossfade == padding \div 2

\* One block lasts as long as the crossfade.
BlockMs == crossfade

MAX_DURATION_MS == 10 * 60 * 1000

\* The vocal is made of up to MaxRuns runs of blocks of one kind.
MaxRuns == 3

\* The lengths of a run, in blocks: 50 ms and 800 ms.
RunLens == {1, silence_len \div BlockMs}

BlockKinds == {"v", "l", "z"}

MixRates == {44100, 48000}

MixChannels == {1, 2}

\* The beat lasts 2 s.
BeatBlocks == {2000 \div BlockMs}

FileKinds == {"missing", "directory", "empty", "bad_ext", "undecodable", "zero_length", "ok"}

\* The blocks of a sequence of runs [kind, len].
RECURSIVE RunBlocks(_)
RunBlocks(runs) ==
    IF runs = <<>> THEN <<>>
    ELSE [k \in 1..Head(runs).len |-> Head(runs).kind] \o RunBlocks(Tail(runs))

\* Block p lies in a run of at least silence_len of blocks below silence_thresh.
InLongSilence(blocks, p) ==
    \E a \in 1..p : \E b \in p..Len(blocks) :
        /\ (b - a + 1) * BlockMs >= silence_len
        /\ \A q \in a..b : blocks[q] # "v"

\* pydub's strip_silence: the stretches outside the long silences, each
\* with padding kept on the sides that border a silence, joined with
\* crossfades.  The length of the result, in blocks.
strip_silence(blocks) ==
    LET L == Len(blocks)
        kept == {p \in 1..L : ~InLongSilence(blocks, p)}
        starts == {p \in kept : p = 1 \/ (p - 1) \notin kept}
        ends == {p \in kept : p = L \/ (p + 1) \notin kept}
        pad == padding \div BlockMs
    IN IF L * BlockMs < silence_len THEN L
       ELSE IF kept = {} THEN 0
       ELSE Cardinality(kept)
            + pad * Cardinality(starts \ {1}) + pad * Cardinality(ends \ {L})
            - (crossfade \div BlockMs) * (Cardinality(starts) - 1)

\* The number of samples of so many blocks of audio.
SamplesOf(nblocks, rate, channels) == ((nblocks * BlockMs * rate) \div 1000) * channels

\* The statements of process_vocal: the callee, its keyword parameters, and
\* the keywords the call passes.
Chain ==
    << [name |-> "strip_silence", params |-> {"silence_len", "silence_thresh", "padding"},
        kwargs |-> {"silence_len", "silence_thresh"}],
       [name |-> "high_pass_filter", params |-> {"cutoff"}, kwargs |-> {"cutoff"}],
       [name |-> "apply_eq", params |-> {"low_gain_db", "mid_gain_db", "high_gain_db"},
        kwargs |-> {}],
       [name |-> "soft_clip_saturation", params |-> {"drive"}, kwargs |-> {"drive"}],
       [name |-> "apply_compression", params |-> {"threshold", "ratio", "attack", "release"},
        kwargs |-> {"threshold", "ratio", "attack", "release"}],
       [name |-> "apply_deesser", params |-> {"threshold_db", "reduction_db"},
        kwargs |-> {"freq_start", "freq_end", "threshold"}],
       [name |-> "apply_limiter", params |-> {"ceiling_db"}, kwargs |-> {"ceiling"}],
       [name |-> "normalize", params |-> {"headroom"}, kwargs |-> {}] >>

ChainNames == [k \in 1..Len(Chain) |-> Chain[k].name]

\* Python binds a call only if every keyword names a parameter.
Accepts(stage) == stage.kwargs \subseteq stage.params

\* A buffer a stage returned, or the exception it raised.
Spawned(buf, n) == [status |-> "returned", error |-> "", buf |-> [buf EXCEPT !.n = n]]

Failed(buf, error) == [status |-> "raised", error |-> error, buf |-> buf]

\* rfft, a change of the bins, irfft without a length, _spawn.
SpectralStage(buf) ==
    IF buf.n = 0 \/ IrfftLen(RfftBins(buf.n)) < 1 THEN Failed(buf, "ValueError")
    ELSE Spawned(buf, IrfftLen(RfftBins(buf.n)))

\* What a statement of process_vocal does to the buffer's shape.
StageEffect(name, blocks, buf) ==
    CASE name = "strip_silence" ->
            Spawned(buf, SamplesOf(strip_silence(blocks), buf.rate, buf.channels))
      [] name \in {"high_pass_filter", "apply_eq", "apply_compression", "apply_deesser"} ->
            SpectralStage(buf)
      [] name = "apply_limiter" ->
            IF buf.n = 0 THEN Failed(buf, "ValueError") ELSE Spawned(buf, buf.n)
      [] name \in {"soft_clip_saturation", "normalize"} -> Spawned(buf, buf.n)

NoBuffer == [n |-> 0, rate |-> 0, channels |-> 0]

NoDsp == [status |-> "none", error |-> "", stage |-> ""]

MixRequest(plan, vocal_file, beat_file, vocal, beat) ==
    [pc |-> "request", plan |-> plan, vocal_file |-> vocal_file, beat_file |-> beat_file,
     vocal |-> vocal, beat |-> beat, input |-> NoBuffer, buf |-> NoBuffer, next |-> 1,
     ran |-> <<>>, dsp |-> NoDsp, response |-> "", processed_written |-> FALSE,
     mix_written |-> FALSE, stage_updated |-> FALSE]

Vocals ==
    {[blocks |-> RunBlocks(runs), rate |-> r, channels |-> c] :
        runs \in SeqsOf([kind : BlockKinds, len : RunLens], 1, MaxRuns),
        r \in MixRates, c \in MixChannels}

Beats == [blocks : BeatBlocks, rate : MixRates, channels : MixChannels]

DefaultVocal == [blocks |-> <<"v">>, rate |-> 44100, channels |-> 1]

DefaultBeat == [blocks |-> 2000 \div BlockMs, rate |-> 44100, channels |-> 2]

MixInit ==
    /\ mix \in {MixRequest("free", "ok", "ok", DefaultVocal, DefaultBeat)}
               \cup {MixRequest("pro", vf, bf, DefaultVocal, DefaultBeat) :
                        vf \in FileKinds, bf \in FileKinds}
               \cup {MixRequest("pro", "ok", "ok", v, b) : v \in Vocals, b \in Beats}
    /\ lim = LimIdle
    /\ call = CallIdle
    /\ dees = DeesIdle
    /\ fin = FinIdle
    /\ sess = SessIdle
    /\ hp = HpIdle
    /\ rl = RlIdle
    /\ fde = FdeIdle
    /\ orch = OrchIdle
    /\ voice = VoiceIdle
    /\ path = PathIdle
    /\ proj = ProjIdle

\* Lines 1301-1418: the error response of the gate and of the validation,
\* "" when the request passes.
ValidationError(m) ==
    IF m.plan = "free" THEN "upgrade_required"
    ELSE IF m.vocal_file \in {"missing", "directory", "empty"} THEN "INVALID_AUDIO"
    ELSE IF m.beat_file \in {"missing", "directory", "empty"} THEN "INVALID_AUDIO"
    ELSE IF m.vocal_file = "bad_ext" \/ m.beat_file = "bad_ext" THEN "INVALID_AUDIO"
    ELSE IF m.vocal_file = "undecodable" \/ m.beat_file = "undecodable" THEN "INVALID_AUDIO"
    ELSE IF m.vocal_file = "zero_length" \/ m.beat_file = "zero_length" THEN "INVALID_AUDIO"
    ELSE IF Len(m.vocal.blocks) * BlockMs > MAX_DURATION_MS
            \/ m.beat.blocks * BlockMs > MAX_DURATION_MS THEN "FILE_TOO_LONG"
    ELSE IF \A p \in 1..Len(m.vocal.blocks) : m.vocal.blocks[p] = "z" THEN "INVALID_AUDIO"
    ELSE ""

\* Lines 1406-1413: the vocal takes the beat's frame rate and channel count.
MatchedVocal(m) ==
    [n |-> SamplesOf(Len(m.vocal.blocks), m.beat.rate, m.beat.channels),
     rate |-> m.beat.rate, channels |-> m.beat.channels]

\* Lines 1301-1426: the gate, the validation, and the entry of process_vocal.
MixValidate ==
    /\ mix.pc = "request"
    /\ IF ValidationError(mix) # ""
       THEN mix' = [mix EXCEPT !.pc = "done", !.response = ValidationError(mix)]
       ELSE mix' = [mix EXCEPT !.pc = "dsp", !.input = MatchedVocal(mix),
                               !.buf = MatchedVocal(mix), !.next = 1,
                               !.dsp = [NoDsp EXCEPT !.status = "running"]]
    /\ UNCHANGED <<lim, call, dees, fin, sess, hp, rl, fde, orch, voice, path, proj>>

\* The next statement of process_vocal (dsp_chain.py lines 41-81): the call
\* is bound, the stage runs, and its result becomes the next stage's input;
\* an exception leaves process_vocal.
MixStage ==
    /\ mix.pc = "dsp"
    /\ mix.dsp.status = "running"
    /\ mix.next <= Len(Chain)
    /\ LET stage == Chain[mix.next]
           r == StageEffect(stage.name, mix.vocal.blocks, mix.buf)
       IN IF ~Accepts(stage)
          THEN mix' = [mix EXCEPT !.dsp = [status |-> "raised", error |-> "TypeError",
                                           stage |-> stage.name]]
          ELSE IF r.status = "raised"
          THEN mix' = [mix EXCEPT !.dsp = [status |-> "raised", error |-> r.error,
                                           stage |-> stage.name]]
          ELSE mix' = [mix EXCEPT !.buf = r.buf, !.ran = Append(mix.ran, stage.name),
                                  !.next = mix.next + 1]
    /\ UNCHANGED <<lim, call, dees, fin, sess, hp, rl, fde, orch, voice, path, proj>>

\* Lines 1431-1483: both files are exported, the project's "mix" stage is
\* updated, and the success response is returned.
MixExport(m) ==
    [m EXCEPT !.pc = "done", !.processed_written = TRUE, !.mix_written = TRUE,
              !.stage_updated = TRUE, !.response = "ok"]

\* A handler that logs the exception of process_vocal and goes on.
MixAfterDspSwallow(m) == MixExport(m)

\* Lines 1425-1483: except Exception returns DSP_FAILURE; otherwise
\* process_vocal has returned and the handler goes on to the export.
MixAfterDsp(m) ==
    IF m.dsp.status = "raised"
    THEN [m EXCEPT !.pc = "done", !.response = "DSP_FAILURE"]
    ELSE MixExport([m EXCEPT !.dsp = [NoDsp EXCEPT !.status = "returned"]])

\* process_vocal has raised or has reached its return (line 83).
MixRespond ==
    /\ mix.pc = "dsp"
    /\ mix.dsp.status = "raised" \/ mix.next > Len(Chain)
    /\ mix' = MixAfterDsp(mix)
    /\ UNCHANGED <<lim, call, dees, fin, sess, hp, rl, fde, orch, voice, path, proj>>

MixNext == MixValidate \/ MixStage \/ MixRespond

SpecPipeline == MixInit /\ [][MixNext]_vars

(***************************************************************************)
(* Calls of the stage functions on one AudioSegment.  Every caller holds a  *)
(* reference to the same segment; a call copies the segment's samples into  *)
(* a local array on entry and returns a new segment.  The calls of the      *)
(* callers interleave between entry and return.                             *)
(***************************************************************************)
\* The longest buffer of the shared segment.
MaxSessLen == 2

\* The number of calls made on the segment.
MaxSessCalls == 3

SessSampleValues == {12000, -30000}

\* The stage calls of process_vocal (lines 45-71) with the arguments it
\* passes; the de-esser band is scaled to the frame rates of the model.
SessStages ==
    {[CallIdle EXCEPT !.stage = "high_pass_filter", !.cutoff = 80],
     [CallIdle EXCEPT !.stage = "apply_eq"],
     [CallIdle EXCEPT !.stage = "soft_clip_saturation", !.drive = 10150],
     [CallIdle EXCEPT !.stage = "apply_compression", !.threshold = -180,
                      !.ratio = 4 * SCALE, !.attack = 100, !.release = 800],
     [CallIdle EXCEPT !.stage = "apply_deesser", !.freq_start = 400, !.freq_end = 500,
                      !.threshold = -250],
     [CallIdle EXCEPT !.stage = "apply_limiter", !.ceiling = -10]}

\* What the call c returns or raises, computed from its local samples.
StageResult(c) ==
    CASE c.stage = "high_pass_filter" -> high_pass_filter(c.samples, c.sr, c.cutoff)
      [] c.stage = "apply_eq" -> apply_eq(c.samples, c.sr)
      [] c.stage = "soft_clip_saturation" -> soft_clip_saturation(c.samples, c.drive)
      [] c.stage = "apply_compression" ->
            apply_compression(c.samples, c.sr, c.threshold, c.ratio, c.attack, c.release)
      [] c.stage = "apply_deesser" ->
            apply_deesser(c.samples, c.sr, c.freq_start, c.freq_end, c.threshold)
      [] c.stage = "apply_limiter" -> apply_limiter(c.samples, c.sr, c.ceiling)

\* samples = np.array(audio.get_array_of_samples()).astype(np.float32): the
\* local array is a copy of the segment's samples.
LocalSamples(audio) == Array(audio.samples)

\* A stage that works in place: the result is written to the caller's
\* segment.
SegmentSharedWithCall(samples, result) ==
    IF result.status = "returned" THEN result.out ELSE samples

\* The segment's samples once a call has worked with its local array and
\* produced result: the local array is a copy and _spawn builds a new
\* segment, so the caller's segment keeps its samples.
SegmentAfterCall(samples, result) == samples

SessInit ==
    /\ sess \in {[SessIdle EXCEPT !.audio = [samples |-> s, sr |-> r], !.original = s] :
                    s \in SeqsOf(SessSampleValues, 0, MaxSessLen), r \in LimSampleRates}
    /\ lim = LimIdle
    /\ call = CallIdle
    /\ dees = DeesIdle
    /\ fin = FinIdle
    /\ mix = MixIdle
    /\ hp = HpIdle
    /\ rl = RlIdle
    /\ fde = FdeIdle
    /\ orch = OrchIdle
    /\ voice = VoiceIdle
    /\ path = PathIdle
    /\ proj = ProjIdle

\* Caller t calls the stage c on the segment: the first statement of the
\* stage copies the samples.
SessEnter(t, c) ==
    /\ sess.thread[t].pc = "idle"
    /\ sess.calls < MaxSessCalls
    /\ sess' = [sess EXCEPT !.thread[t] = [c EXCEPT !.pc = "call",
                                                    !.samples = LocalSamples(sess.audio),
                                                    !.sr = sess.audio.sr],
                            !.calls = sess.calls + 1]
    /\ UNCHANGED <<lim, call, dees, fin, mix, hp, rl, fde, orch, voice, path, proj>>

\* The call of caller t runs to its return statement or to its exception.
SessReturn(t) ==
    /\ sess.thread[t].pc = "call"
    /\ LET result == StageResult(sess.thread[t])
       IN sess' = [sess EXCEPT
                      !.thread[t] = CallIdle,
                      !.audio.samples = SegmentAfterCall(sess.audio.samples, result),
                      !.log = Append(sess.log, [stage |-> sess.thread[t].stage,
                                                result |-> result])]
    /\ UNCHANGED <<lim, call, dees, fin, mix, hp, rl, fde, orch, voice, path, proj>>

SessNext ==
    \/ \E t \in SessThreads : \E c \in SessStages : SessEnter(t, c)
    \/ \E t \in SessThreads : SessReturn(t)

SpecSession == SessInit /\ [][SessNext]_vars

(***************************************************************************)
(* high_pass_filter of src/backend/dsp/filters.py, statement by statement.  *)
(***************************************************************************)
\* The longest buffer high_pass_filter is called with.
MaxHpLen == 36

\* The buffers: a single pulse (every bin of its spectrum is non-zero), a
\* constant level, and a pulse on a constant level.
HpSignals == {"pulse", "level", "both"}

HpSample(signal, p) ==
    CASE signal = "pulse" -> IF p = 0 THEN 20000 ELSE 0
      [] signal = "level" -> 3000
      [] signal = "both" -> IF p = 1 THEN -20000 ELSE 3000

HpBuffer(signal, n) == [p \in 1..n |-> HpSample(signal, p - 1)]

\* cutoff, in Hz: the 80 Hz of process_vocal and frequencies that are bin
\* frequencies of some of the buffers.
HpCutoffs == {80, 250, 500}

HpInit ==
    /\ hp \in {[HpIdle EXCEPT !.pc = "call", !.samples = HpBuffer(g, n), !.sr = r,
                              !.cutoff = c] :
                  g \in HpSignals, n \in 0..MaxHpLen, r \in LimSampleRates, c \in HpCutoffs}
    /\ lim = LimIdle
    /\ call = CallIdle
    /\ dees = DeesIdle
    /\ fin = FinIdle
    /\ mix = MixIdle
    /\ sess = SessIdle
    /\ rl = RlIdle
    /\ fde = FdeIdle
    /\ orch = OrchIdle
    /\ voice = VoiceIdle
    /\ path = PathIdle
    /\ proj = ProjIdle

\* Lines 11-17: the samples, their transform and the bin frequencies.
HpTransform ==
    /\ hp.pc = "call"
    /\ IF Len(hp.samples) = 0
       THEN hp' = [hp EXCEPT !.pc = "done", !.result = Raised("ValueError")]
       ELSE hp' = [hp EXCEPT !.pc = "transformed", !.fft = Rfft(hp.samples)]
    /\ UNCHANGED <<lim, call, dees, fin, mix, sess, rl, fde, orch, voice, path, proj>>

\* Line 20: fft[freqs < cutoff] = 0
HpMask ==
    /\ hp.pc = "transformed"
    /\ hp' = [hp EXCEPT !.pc = "masked",
                        !.masked = HighPassBins(hp.fft, Len(hp.samples), hp.sr, hp.cutoff)]
    /\ UNCHANGED <<lim, call, dees, fin, mix, sess, rl, fde, orch, voice, path, proj>>

\* Lines 23-28: the inverse transform, the cast and the new segment.
HpInverse ==
    /\ hp.pc = "masked"
    /\ hp' = [hp EXCEPT !.pc = "done",
                        !.result = IF IrfftLen(Len(hp.masked)) < 1
                                   THEN Raised("ValueError")
                                   ELSE Returned(Irfft(hp.masked))]
    /\ UNCHANGED <<lim, call, dees, fin, mix, sess, rl, fde, orch, voice, path, proj>>

HpNext == HpTransform \/ HpMask \/ HpInverse

SpecHighPass == HpInit /\ [][HpNext]_vars


(***************************************************************************)
(* src/utils/rate_limit.py: RateLimiterMiddleware.  The clock is read in    *)
(* whole seconds; tokens are counted in units of 1 / TokenUnit of a token,  *)
(* so that the refill of one second, capacity / 60 = 0.5 token, is exact.   *)
(* On whole seconds the binary64 values of the code differ from these by    *)
(* at most one unit in the last place, upward, while the bucket is not      *)
(* full, and the test tokens < 1.0 falls the same way.                      *)
(***************************************************************************)
\* requests_per_minute, as src/main.py passes it; self.capacity.
requests_per_minute == 30

\* self.refill_time_window, in seconds.
refill_time_window == 60

TokenUnit == 2

\* The clock runs from 0 to RlMaxTime.
RlMaxTime == 64

\* The latest start of the observed interval.
RlMaxStart == 2

\* The seconds between two arrivals of requests: the time one token takes
\* to refill.
RlSteps == {2}

\* The client addresses _get_client_ip returns.
RlClients == {"a", "b"}

\* self._buckets.get(ip, (self.capacity, now))
RlBucket(buckets, ip, now) ==
    IF ip \in DOMAIN buckets THEN buckets[ip]
    ELSE [tokens |-> requests_per_minute * TokenUnit, last_refill |-> now]

\* A refill without the cap of line 37.
RlTokensUncapped(bucket, now) ==
    bucket.tokens
    + (Max2(0, now - bucket.last_refill) * requests_per_minute * TokenUnit) \div refill_time_window

\* Lines 35-37: the tokens of the bucket at the time now.
RlTokens(bucket, now) ==
    LET elapsed == Max2(0, now - bucket.last_refill)
        refill == (elapsed * requests_per_minute * TokenUnit) \div refill_time_window
    IN Min2(requests_per_minute * TokenUnit, bucket.tokens + refill)

\* A bucket that keeps the time of its last refill when a token is taken.
RlConsumeKeepTime(bucket, tokens, now) ==
    [tokens |-> tokens - TokenUnit, last_refill |-> bucket.last_refill]

\* Line 48: the bucket stored when a request passes.
RlConsume(bucket, tokens, now) == [tokens |-> tokens - TokenUnit, last_refill |-> now]

\* now is inside the observed interval of refill_time_window seconds.
RlInWindow(ip) ==
    /\ ip = rl.window.ip
    /\ rl.now >= rl.window.start
    /\ rl.now < rl.window.start + refill_time_window

\* A new middleware; the interval [start, start + 60) of one client is
\* observed.
RlInit ==
    /\ rl \in {[RlIdle EXCEPT !.window.ip = "a", !.window.start = s] : s \in 0..RlMaxStart}
    /\ lim = LimIdle
    /\ call = CallIdle
    /\ dees = DeesIdle
    /\ fin = FinIdle
    /\ mix = MixIdle
    /\ sess = SessIdle
    /\ hp = HpIdle
    /\ fde = FdeIdle
    /\ orch = OrchIdle
    /\ voice = VoiceIdle
    /\ path = PathIdle
    /\ proj = ProjIdle

\* Time passes.
RlTick(dt) ==
    /\ rl.now + dt <= RlMaxTime
    /\ rl' = [rl EXCEPT !.now = rl.now + dt]
    /\ UNCHANGED <<lim, call, dees, fin, mix, sess, hp, fde, orch, voice, path, proj>>

\* dispatch(request, call_next) for a request of the client ip.
RlDispatch(ip) ==
    /\ LET bucket == RlBucket(rl.buckets, ip, rl.now)
           tokens == RlTokens(bucket, rl.now)
           counted == IF RlInWindow(ip) THEN 1 ELSE 0
       IN IF tokens < TokenUnit
          THEN rl' = [rl EXCEPT !.window.refused = Min2(1, rl.window.refused + counted)]
          ELSE rl' = [rl EXCEPT
                         !.buckets = (ip :> RlConsume(bucket, tokens, rl.now)) @@ rl.buckets,
                         !.window.passed = rl.window.passed + counted]
    /\ UNCHANGED <<lim, call, dees, fin, mix, sess, hp, fde, orch, voice, path, proj>>

\* Another client sends its first request when the interval starts.
RlOther ==
    /\ rl.now = rl.window.start
    /\ \E ip \in RlClients \ {rl.window.ip} : ip \notin DOMAIN rl.buckets /\ RlDispatch(ip)

RlNext ==
    \/ \E dt \in RlSteps : RlTick(dt)
    \/ RlDispatch(rl.window.ip)
    \/ RlOther

SpecRateLimit == RlInit /\ [][RlNext]_vars

(***************************************************************************)
(* The middleware under a clock that is set: time() is the wall clock and  *)
(* may return a reading equal to or below an earlier one.                  *)
(***************************************************************************)
\* The readings of the clock, in seconds.
RlReadings == {0, 1, 2, refill_time_window}

\* The requests of the observed client that pass while the clock reads less
\* than refill_time_window.
RlMaxPassed == 33

RlClockInit ==
    /\ rl = [RlIdle EXCEPT !.window.ip = "a"]
    /\ lim = LimIdle
    /\ call = CallIdle
    /\ dees = DeesIdle
    /\ fin = FinIdle
    /\ mix = MixIdle
    /\ sess = SessIdle
    /\ hp = HpIdle
    /\ fde = FdeIdle
    /\ orch = OrchIdle
    /\ voice = VoiceIdle
    /\ path = PathIdle
    /\ proj = ProjIdle

\* time() returns another reading, above or below the last one.
RlSetClock(t) ==
    /\ t # rl.now
    /\ rl' = [rl EXCEPT !.now = t]
    /\ UNCHANGED <<lim, call, dees, fin, mix, sess, hp, fde, orch, voice, path, proj>>

\* A request of the observed client.
RlRequest ==
    /\ rl.window.passed < RlMaxPassed
    /\ RlDispatch(rl.window.ip)

RlClockNext ==
    \/ \E t \in RlReadings : RlSetClock(t)
    \/ RlRequest
    \/ RlOther

SpecRateClock == RlClockInit /\ [][RlClockNext]_vars

(***************************************************************************)
(* A call of apply_deesser of src/backend/dsp/deesser.py.                  *)
(***************************************************************************)
\* The longest buffer the FFT de-esser is called with.
MaxFdeLen == 5

\* Samples: silence, a level that keeps every bin at or below the higher
\* threshold, and a loud one.
FdeSampleValues == {0, 6, -400}

\* Frame rates whose Nyquist frequency is at or above 10 kHz.
FdeSampleRates == {20000, 44100}

\* threshold_db in tenths of a dB: the default -20 dB, and +20 dB.
FdeThresholds == {-200, 200}

\* reduction_db in tenths of a dB: the default -6 dB.
FdeReductions == {-60}

FdeInit ==
    /\ fde \in {[FdeIdle EXCEPT !.pc = "call", !.samples = x, !.sr = r,
                                !.threshold_db = t, !.reduction_db = d] :
                   x \in SeqsOf(FdeSampleValues, 1, MaxFdeLen), r \in FdeSampleRates,
                   t \in FdeThresholds, d \in FdeReductions}
    /\ lim = LimIdle
    /\ call = CallIdle
    /\ dees = DeesIdle
    /\ fin = FinIdle
    /\ mix = MixIdle
    /\ sess = SessIdle
    /\ hp = HpIdle
    /\ rl = RlIdle
    /\ orch = OrchIdle
    /\ voice = VoiceIdle
    /\ path = PathIdle
    /\ proj = ProjIdle

\* Lines 9-20: the samples, their transform, the frequencies and the region.
FdeTransform ==
    /\ fde.pc = "call"
    /\ fde' = [fde EXCEPT !.pc = "transformed", !.fft = Rfft(fde.samples)]
    /\ UNCHANGED <<lim, call, dees, fin, mix, sess, hp, rl, orch, voice, path, proj>>

\* Lines 23-24: the mask, and the reduction of the bins it selects.
FdeReduce ==
    /\ fde.pc = "transformed"
    /\ fde' = [fde EXCEPT
                  !.pc = "reduced",
                  !.copy = ReducedCopy(fde.fft, Len(fde.samples), fde.sr,
                                       fde.threshold_db, fde.reduction_db),
                  !.spectrum = SpectrumAfterReduction(fde.fft, Len(fde.samples), fde.sr,
                                                      fde.threshold_db, fde.reduction_db)]
    /\ UNCHANGED <<lim, call, dees, fin, mix, sess, hp, rl, orch, voice, path, proj>>

\* Lines 27-30: the inverse transform, the cast and the new segment.
FdeInverse ==
    /\ fde.pc = "reduced"
    /\ fde' = [fde EXCEPT !.pc = "done",
                          !.result = IF IrfftLen(Len(fde.spectrum)) < 1
                                     THEN Raised("ValueError")
                                     ELSE Returned(Irfft(fde.spectrum))]
    /\ UNCHANGED <<lim, call, dees, fin, mix, sess, hp, rl, orch, voice, path, proj>>

FdeNext == FdeTransform \/ FdeReduce \/ FdeInverse

SpecFftDeesser == FdeInit /\ [][FdeNext]_vars

(***************************************************************************)
(* src/backend/orchestrator.py: ProjectOrchestrator on one session.  The   *)
(* handlers of src/main.py are coroutines of one event loop and call       *)
(* update_stage synchronously; POST /project/reset runs reset_project in   *)
(* a worker thread (asyncio.to_thread).  A dict is a function from its     *)
(* keys; datetime.now() is the counter orch.now.                           *)
(***************************************************************************)
\* The operations begun on the session.
MaxOrchOps == 3

user_id == "u1"

session_id == "s1"

OrchStages == {"beat", "mix"}

OrchKeys == {"path", "ok"}

OrchValues == {1, 2}

\* The payloads: every dict over OrchKeys, the empty one included.
OrchPayloads == UNION {[K -> OrchValues] : K \in SUBSET OrchKeys}

\* A stage dict that the payload replaces.
DictReplace(d, payload) == payload

\* d.update(payload), line 99.
DictUpdate(d, payload) ==
    [k \in (DOMAIN d) \cup (DOMAIN payload) |-> IF k \in DOMAIN payload THEN payload[k] ELSE d[k]]

\* The structure of lines 82-88 and 165-171.
EmptyProject(now) ==
    [kind |-> "json", user_id |-> user_id, session_id |-> session_id,
     created_at |-> now, updated_at |-> now, stages |-> <<>>]

\* Lines 91-99 on the loaded or new project_data.
StageMerged(project_data, stage_name, payload) ==
    LET old == IF stage_name \in DOMAIN project_data.stages
               THEN project_data.stages[stage_name] ELSE <<>>
    IN [project_data EXCEPT
           !.stages = [s \in (DOMAIN project_data.stages) \cup {stage_name} |->
                          IF s = stage_name THEN DictUpdate(old, payload)
                          ELSE project_data.stages[s]]]

\* Lines 52-61 of save_project: created_at is in every dict this class
\* builds, so line 56 never runs.
Stamped(data, now) ==
    [data EXCEPT !.updated_at = now, !.session_id = session_id, !.user_id = user_id]

\* The file after a thread's json.dump and close (line 65) of data into the
\* file it opened: nothing if the file was unlinked since; the text
\* written over the start of a longer text another writer left is not JSON.
Dumped(file, data, unlinked) ==
    IF unlinked THEN file
    ELSE IF file.kind = "json" /\ data.stages = <<>> /\ file.stages # <<>> THEN GarbageFile
    ELSE data

OrchInit ==
    /\ orch \in {[OrchIdle EXCEPT !.threads = t] : t \in BOOLEAN}
    /\ lim = LimIdle
    /\ call = CallIdle
    /\ dees = DeesIdle
    /\ fin = FinIdle
    /\ mix = MixIdle
    /\ sess = SessIdle
    /\ hp = HpIdle
    /\ rl = RlIdle
    /\ fde = FdeIdle
    /\ voice = VoiceIdle
    /\ path = PathIdle
    /\ proj = ProjIdle

\* The calls of the period in which calls overlap, when a call begins.
OrchBusy(update, reset) ==
    LET fresh == orch.loop.pc = "idle" /\ orch.worker.pc = "idle"
        b == IF fresh THEN [updates |-> <<>>, resets |-> 0] ELSE orch.busy
    IN [b EXCEPT !.updates = b.updates \o update, !.resets = b.resets + reset]

\* A handler on the event loop calls update_stage(stage_name, payload).
UpdBegin(stage_name, payload) ==
    /\ orch.ops < MaxOrchOps
    /\ orch.loop.pc = "idle"
    /\ orch.threads \/ orch.worker.pc = "idle"
    /\ orch' = [orch EXCEPT
                   !.ops = orch.ops + 1, !.now = orch.now + 1,
                   !.busy = OrchBusy(<<[stage_name |-> stage_name, payload |-> payload]>>, 0),
                   !.loop = [OrchThreadIdle EXCEPT !.pc = "load", !.stage_name = stage_name,
                                                   !.payload = payload, !.before = orch.file]]
    /\ UNCHANGED <<lim, call, dees, fin, mix, sess, hp, rl, fde, voice, path, proj>>

\* Lines 78-99: load_project or the new structure, and the merge.
UpdLoad ==
    /\ orch.loop.pc = "load"
    /\ IF orch.file.kind \in {"empty", "garbage"}
       THEN orch' = [orch EXCEPT !.loop.pc = "idle", !.loop.result = "ValueError"]
       ELSE orch' = [orch EXCEPT
                        !.loop.pc = "open",
                        !.loop.project_data =
                            StageMerged(IF orch.file.kind = "absent"
                                        THEN EmptyProject(orch.now) ELSE orch.file,
                                        orch.loop.stage_name, orch.loop.payload)]
    /\ UNCHANGED <<lim, call, dees, fin, mix, sess, hp, rl, fde, voice, path, proj>>

\* Lines 52-64 of save_project: the stamps, and open(project_path, 'w').
UpdOpen ==
    /\ orch.loop.pc = "open"
    /\ orch' = [orch EXCEPT !.loop.pc = "dump",
                            !.loop.project_data = Stamped(orch.loop.project_data, orch.now),
                            !.file = EmptyFile]
    /\ UNCHANGED <<lim, call, dees, fin, mix, sess, hp, rl, fde, voice, path, proj>>

\* Line 65 and the return of update_stage.
UpdDump ==
    /\ orch.loop.pc = "dump"
    /\ orch' = [orch EXCEPT !.loop.pc = "idle", !.loop.result = "returned",
                            !.file = Dumped(orch.file, orch.loop.project_data,
                                            orch.loop.unlinked)]
    /\ UNCHANGED <<lim, call, dees, fin, mix, sess, hp, rl, fde, voice, path, proj>>

\* POST /project/reset: reset_project begins in a worker thread.
RstBegin ==
    /\ orch.ops < MaxOrchOps
    /\ orch.worker.pc = "idle"
    /\ orch.threads \/ orch.loop.pc = "idle"
    /\ orch' = [orch EXCEPT !.ops = orch.ops + 1, !.now = orch.now + 1,
                            !.busy = OrchBusy(<<>>, 1),
                            !.worker = [OrchThreadIdle EXCEPT !.pc = "exists",
                                                             !.before = orch.file]]
    /\ UNCHANGED <<lim, call, dees, fin, mix, sess, hp, rl, fde, voice, path, proj>>

\* Line 160: if self.project_path.exists()
RstExists ==
    /\ orch.worker.pc = "exists"
    /\ orch' = [orch EXCEPT !.worker.pc = IF orch.file.kind = "absent" THEN "open" ELSE "unlink"]
    /\ UNCHANGED <<lim, call, dees, fin, mix, sess, hp, rl, fde, voice, path, proj>>

\* Line 161: unlink(); a file the event loop holds open stays open, without
\* a name.
RstUnlink ==
    /\ orch.worker.pc = "unlink"
    /\ IF orch.file.kind = "absent"
       THEN orch' = [orch EXCEPT !.worker.pc = "idle", !.worker.result = "FileNotFoundError"]
       ELSE orch' = [orch EXCEPT !.worker.pc = "open", !.file = NoFile,
                                 !.loop.unlinked = orch.loop.pc = "dump"]
    /\ UNCHANGED <<lim, call, dees, fin, mix, sess, hp, rl, fde, voice, path, proj>>

\* Lines 165-173 up to open(project_path, 'w') of save_project.
RstOpen ==
    /\ orch.worker.pc = "open"
    /\ orch' = [orch EXCEPT !.worker.pc = "dump",
                            !.worker.project_data = Stamped(EmptyProject(orch.now), orch.now),
                            !.file = EmptyFile]
    /\ UNCHANGED <<lim, call, dees, fin, mix, sess, hp, rl, fde, voice, path, proj>>

\* Line 65 and the return of reset_project.
RstDump ==
    /\ orch.worker.pc = "dump"
    /\ orch' = [orch EXCEPT !.worker.pc = "idle", !.worker.result = "returned",
                            !.file = Dumped(orch.file, orch.worker.project_data, FALSE)]
    /\ UNCHANGED <<lim, call, dees, fin, mix, sess, hp, rl, fde, voice, path, proj>>

OrchNext ==
    \/ \E s \in OrchStages, p \in OrchPayloads : UpdBegin(s, p)
    \/ UpdLoad \/ UpdOpen \/ UpdDump
    \/ RstBegin \/ RstExists \/ RstUnlink \/ RstOpen \/ RstDump

SpecOrchestrator == OrchInit /\ [][OrchNext]_vars

(***************************************************************************)
(* src/main.py: should_speak(persona, text), as gtts_speak calls it.  The  *)
(* handlers that call gtts_speak are coroutines of one event loop, so a    *)
(* call of should_speak runs without interruption.  time.time() is in      *)
(* units of VoiceTimeUnit seconds; the SHA-256 digest of a string is       *)
(* modelled by the string.                                                 *)
(***************************************************************************)
_voice_debounce_seconds == 10

\* Seconds per unit of the clock.
VoiceTimeUnit == 5

\* The first and the last reading of the clock, in units.
VoiceFirstTime == 200

VoiceMaxTime == 204

\* The calls made.
MaxVoiceCalls == 4

VoicePersonas == {"nova", "echo"}

VoiceTexts == {"hi", "yo"}

\* key = sha256(f"{persona}:{text}").hexdigest(), line 255.
VoiceKey(persona, text) == persona \o ":" \o text

\* _voice_debounce_cache.get(key, 0), line 257, in units.
VoiceLastTime(cache, key) == IF key \in DOMAIN cache THEN cache[key] ELSE 0

\* A should_speak that also refuses a call exactly 10 seconds after.
should_speak_inclusive(cache, key, now) ==
    IF (now - VoiceLastTime(cache, key)) * VoiceTimeUnit <= _voice_debounce_seconds
    THEN [spoke |-> FALSE, cache |-> cache]
    ELSE [spoke |-> TRUE,
          cache |-> [k \in (DOMAIN cache) \cup {key} |-> IF k = key THEN now ELSE cache[k]]]

\* Lines 256-261: the value returned and the cache afterwards.
should_speak(cache, key, now) ==
    IF (now - VoiceLastTime(cache, key)) * VoiceTimeUnit < _voice_debounce_seconds
    THEN [spoke |-> FALSE, cache |-> cache]
    ELSE [spoke |-> TRUE,
          cache |-> [k \in (DOMAIN cache) \cup {key} |-> IF k = key THEN now ELSE cache[k]]]

VoiceInit ==
    /\ voice = [VoiceIdle EXCEPT !.now = VoiceFirstTime]
    /\ lim = LimIdle
    /\ call = CallIdle
    /\ dees = DeesIdle
    /\ fin = FinIdle
    /\ mix = MixIdle
    /\ sess = SessIdle
    /\ hp = HpIdle
    /\ rl = RlIdle
    /\ fde = FdeIdle
    /\ orch = OrchIdle
    /\ path = PathIdle
    /\ proj = ProjIdle

\* time.time() reads another value: the clock has advanced, or was set back.
VoiceClock(t) ==
    /\ t # voice.now
    /\ voice' = [voice EXCEPT !.now = t]
    /\ UNCHANGED <<lim, call, dees, fin, mix, sess, hp, rl, fde, orch, path, proj>>

\* gtts_speak(persona, text, ...) up to line 281; accepted records, per key,
\* the reading of the clock at the last call that returned True.
VoiceSay(persona, text) ==
    /\ voice.calls < MaxVoiceCalls
    /\ LET key == VoiceKey(persona, text)
           r == should_speak(voice.cache, key, voice.now)
       IN voice' = [voice EXCEPT
                       !.calls = voice.calls + 1,
                       !.cache = r.cache,
                       !.accepted = IF r.spoke
                                    THEN [k \in (DOMAIN voice.accepted) \cup {key} |->
                                             IF k = key THEN voice.now ELSE voice.accepted[k]]
                                    ELSE voice.accepted,
                       !.last = [key |-> key, now |-> voice.now, spoke |-> r.spoke,
                                 cached |-> ~r.spoke]]
    /\ UNCHANGED <<lim, call, dees, fin, mix, sess, hp, rl, fde, orch, path, proj>>

VoiceNext ==
    \/ \E t \in VoiceFirstTime..VoiceMaxTime : VoiceClock(t)
    \/ \E p \in VoicePersonas, x \in VoiceTexts : VoiceSay(p, x)

SpecVoice == VoiceInit /\ [][VoiceNext]_vars

(***************************************************************************)
(* src/main.py, run_clean_mix, lines 1311-1321: the resolution of          *)
(* request.vocal_url and request.beat_url.                                 *)
(***************************************************************************)
\* The characters after the prefix of an input.
MaxPathTail == 3

\* s.startswith(prefix)
startswith(s, prefix) == Len(s) >= Len(prefix) /\ SubSeq(s, 1, Len(prefix)) = prefix

\* An lstrip that removes one leading character at most.
lstrip_one(s, ch) == IF Len(s) > 0 /\ s[1] = ch THEN SubSeq(s, 2, Len(s)) ELSE s

\* s.lstrip(ch)
RECURSIVE lstrip(_, _)
lstrip(s, ch) == IF Len(s) > 0 /\ s[1] = ch THEN lstrip(SubSeq(s, 2, Len(s)), ch) ELSE s

\* "/media/"
MediaPrefix == <<"/", "m", "e", "d", "i", "a", "/">>

\* Lines 1311-1315 (and 1317-1321): the path the handler opens.
ResolvedPath(url) ==
    IF startswith(url, MediaPrefix) THEN <<".">> \o url
    ELSE IF ~startswith(url, <<".", "/">>) THEN <<".", "/">> \o lstrip(url, "/")
    ELSE url

\* The beginnings of the inputs: none, the media prefix whole, without its
\* last or its first character, and the resolved prefix.
PathHeads ==
    {<<>>, MediaPrefix, SubSeq(MediaPrefix, 1, 6), SubSeq(MediaPrefix, 2, 7), <<".", "/">>}

PathChars == {"/", ".", "a"}

PathInit ==
    /\ path \in {[PathIdle EXCEPT !.pc = "call", !.input = h \o t] :
                    h \in PathHeads, t \in SeqsOf(PathChars, 0, MaxPathTail)}
    /\ lim = LimIdle
    /\ call = CallIdle
    /\ dees = DeesIdle
    /\ fin = FinIdle
    /\ mix = MixIdle
    /\ sess = SessIdle
    /\ hp = HpIdle
    /\ rl = RlIdle
    /\ fde = FdeIdle
    /\ orch = OrchIdle
    /\ voice = VoiceIdle
    /\ proj = ProjIdle

\* The resolution of the request's path.
PathResolve ==
    /\ path.pc = "call"
    /\ path' = [path EXCEPT !.pc = "resolved", !.resolved = ResolvedPath(path.input)]
    /\ UNCHANGED <<lim, call, dees, fin, mix, sess, hp, rl, fde, orch, voice, proj>>

\* The resolution of a request that carries the resolved path.
PathResolveAgain ==
    /\ path.pc = "resolved"
    /\ path' = [path EXCEPT !.pc = "done", !.again = ResolvedPath(path.resolved)]
    /\ UNCHANGED <<lim, call, dees, fin, mix, sess, hp, rl, fde, orch, voice, proj>>

PathNext == PathResolve \/ PathResolveAgain

SpecPath == PathInit /\ [][PathNext]_vars

(***************************************************************************)
(* src/main.py, save_project (POST /projects/save), lines 2718-2768, for   *)
(* one user.  proj.files is the set of the names, without ".json", of the  *)
(* files under data/projects/<user_id>.  The handler does not await        *)
(* between its glob and its write.                                         *)
(***************************************************************************)
\* The requests made.
MaxSaves == 4

\* request.projectId: None (here ""), or an id the client chose.
ProjRequestIds == {"", "p1", "p2"}

\* The values of str(uuid.uuid4()).
ProjUuids == {"u1", "u2", "u3", "u4", "u5"}

ProjPlans == {"free", "pro"}

\* Lines 2729-2736: the request is refused.
UpgradeRequired(plan, files, projectId) ==
    plan = "free" /\ projectId = "" /\ Cardinality(files) >= 1

ProjInit ==
    /\ proj \in {[ProjIdle EXCEPT !.plan = p] : p \in ProjPlans}
    /\ lim = LimIdle
    /\ call = CallIdle
    /\ dees = DeesIdle
    /\ fin = FinIdle
    /\ mix = MixIdle
    /\ sess = SessIdle
    /\ hp = HpIdle
    /\ rl = RlIdle
    /\ fde = FdeIdle
    /\ orch = OrchIdle
    /\ voice = VoiceIdle
    /\ path = PathIdle

\* Lines 2718-2768: one request; uuid is the value uuid4 returns when the
\* request has no projectId.
ProjSave(projectId, uuid) ==
    /\ proj.saves < MaxSaves
    /\ uuid \notin proj.files
    /\ LET project_id == IF projectId # "" THEN projectId ELSE uuid
       IN proj' = [proj EXCEPT
                      !.saves = proj.saves + 1,
                      !.files = IF UpgradeRequired(proj.plan, proj.files, projectId)
                                THEN proj.files
                                ELSE proj.files \cup {project_id},
                      !.last = [projectId |-> projectId, before |-> proj.files,
                                status |-> IF UpgradeRequired(proj.plan, proj.files, projectId)
                                           THEN 403 ELSE 200,
                                project_id |-> project_id]]
    /\ UNCHANGED <<lim, call, dees, fin, mix, sess, hp, rl, fde, orch, voice, path>>

ProjNext == \E projectId \in ProjRequestIds, uuid \in ProjUuids : ProjSave(projectId, uuid)

SpecProjects == ProjInit /\ [][ProjNext]_vars

(***************************************************************************)
(* The properties.                                                          *)
(***************************************************************************)
\* C1 (limiter ceiling): for every non-silent input and every ceiling
\* <= 0 dB, every output sample of apply_limiter is at most
\* ceiling_linear * peak(input) in magnitude, within a tolerance of 1 %.
C1_LimiterCeiling ==
    lim.pc = "done" /\ SeqMaxAbs(lim.samples) > 0 /\ lim.ceiling <= 0 =>
        LET bound == DbToLinear(lim.ceiling) * SeqMaxAbs(lim.samples)
        IN \A k \in 1..Len(lim.output) :
              Abs(lim.output[k]) * SCALE <= bound + bound \div 100

\* The arguments every stage documents as valid: a positive frame rate, a
\* ratio of at least 1, a cutoff that is not negative.
ValidArguments == call.sr > 0 /\ call.ratio >= SCALE /\ call.cutoff >= 0

\* C2 (length preservation per stage): a stage called with N >= 1 samples,
\* N even or odd, returns a buffer of exactly N samples.
C2_LengthPreserved ==
    call.pc = "done" /\ Len(call.samples) >= 1 /\ ValidArguments =>
        /\ call.result.status = "returned"
        /\ Len(call.result.out) = Len(call.samples)

\* C3 (ratio 1 is a no-op): apply_compression called with ratio = 1 returns
\* its input, sample for sample, within rounding.  Stated for the buffers of
\* even length, which the inverse FFT returns at full length.
C3_RatioOneNoOp ==
    /\ call.pc = "done" /\ call.stage = "apply_compression" /\ call.ratio = SCALE
    /\ call.sr > 0 /\ Len(call.samples) >= 1 /\ Len(call.samples) % 2 = 0
    => /\ call.result.status = "returned"
       /\ Len(call.result.out) = Len(call.samples)
       /\ \A k \in 1..Len(call.samples) : Abs(call.result.out[k] - call.samples[k]) <= 4

\* C4 (identity on silence): a stage called with N >= 1 zero samples
\* returns N zero samples and raises nothing.
C4_SilenceIdentity ==
    /\ call.pc = "done" /\ Len(call.samples) >= 1 /\ ValidArguments
    /\ \A k \in 1..Len(call.samples) : call.samples[k] = 0
    => /\ call.result.status = "returned"
       /\ call.result.out = call.samples

\* C5 (end-to-end peak bound): after normalize and the 0.8 dB reduction the
\* peak of the returned buffer is at most the limiter's ceiling, -1.0 dB
\* relative to full scale.
C5_EndToEndPeak ==
    fin.pc = "done" =>
        SeqMaxAbs(fin.output) * SCALE <= DbToLinear(-10) * MaxPossibleAmplitude

\* The vocal of the request holds voiced audio.
Voiced == \E p \in 1..Len(mix.vocal.blocks) : mix.vocal.blocks[p] = "v"

\* C6 (fixed stage order): when process_vocal has ended on a voiced vocal,
\* the eight stages have run once each, in the order of the chain.
C6_FixedStageOrder ==
    mix.pc = "done" /\ mix.dsp.status # "none" /\ Voiced => mix.ran = ChainNames

\* C7 (pipeline length and rate preservation): process_vocal called with a
\* voiced vocal returns a buffer with the sample count, the frame rate and
\* the channel count of its input.
C7_PipelineShape ==
    mix.pc = "done" /\ mix.dsp.status # "none" /\ Voiced =>
        /\ mix.dsp.status = "returned"
        /\ mix.buf = mix.input

\* The zero-based sample positions of the window that starts at i.
DeesWindowRange(i) ==
    i .. (Min2(i + DeesWindowSize(dees.sr), Len(dees.samples)) - 1)

\* C8 (de-esser threshold behaviour): if no window's detected level is above
\* threshold_linear the output equals the input within rounding; every
\* sample in the range of a window whose detected level is above it is the
\* full-band input sample times a gain strictly below 1.
C8_DeesserThreshold ==
    dees.pc = "done" /\ SeqMaxAbs(dees.samples) > 0 =>
        /\ dees.triggered = {} =>
              \A k \in 1..Len(dees.samples) : Abs(dees.output[k] - dees.samples[k]) <= 4
        /\ \A i \in dees.triggered : \A j \in DeesWindowRange(i) :
              /\ dees.gain_reduction[j + 1] < SCALE
              /\ Abs(dees.output[j + 1] * SCALE
                     - dees.samples[j + 1] * dees.gain_reduction[j + 1]) <= 4 * SCALE

\* C8 happens: a call has returned in which a window was above the
\* threshold and a sample of its range came out smaller than it went in.
C8_Witness ==
    /\ dees.pc = "done"
    /\ \E i \in dees.triggered : \E j \in DeesWindowRange(i) :
          /\ dees.samples[j + 1] # 0
          /\ Abs(dees.output[j + 1]) < Abs(dees.samples[j + 1])

\* C9 (invalid input is rejected): a stage called with an empty buffer, a
\* frame rate that is not positive, a ratio below 1 or a negative cutoff
\* raises an error and returns no buffer.
C9_InvalidRejected ==
    call.pc = "done" /\ ~(ValidArguments /\ Len(call.samples) >= 1) =>
        call.result.status = "raised"

\* C10 (no silent stage skipping): once a stage of process_vocal has raised,
\* the stages before it are the only ones that ran, no file is written, the
\* project's mix stage is not updated and the response is DSP_FAILURE; a
\* success response is given only after all stages have returned.
C10_NoSilentSkip ==
    /\ mix.dsp.status = "raised" =>
          /\ mix.ran = SubSeq(ChainNames, 1, mix.next - 1)
          /\ mix.dsp.stage = ChainNames[mix.next]
          /\ ~mix.processed_written /\ ~mix.mix_written /\ ~mix.stage_updated
          /\ mix.response \in {"", "DSP_FAILURE"}
          /\ mix.pc = "done" => mix.response = "DSP_FAILURE"
    /\ mix.response = "ok" => mix.dsp.status = "returned" /\ mix.ran = ChainNames

\* C10 happens: a stage raised after others had run, and the request was
\* answered.
C10_Witness ==
    /\ mix.pc = "done"
    /\ mix.dsp.status = "raised"
    /\ mix.ran # <<>>
    /\ mix.response = "DSP_FAILURE"

C12_EmptyBufferReturned ==
    /\ call.pc = "done" /\ call.stage \in {"high_pass_filter", "apply_eq"}
    /\ Len(call.samples) = 0 /\ ValidArguments
    => call.result = Returned(<<>>)

\* C13 (high-pass per-bin gain): after the masking, every bin whose
\* frequency k * frame_rate / n is strictly below cutoff is zero, and every
\* bin whose frequency is at or above cutoff, a bin exactly at cutoff
\* included, holds the value the transform gave it.
C13_HighPassBins ==
    hp.pc \in {"masked", "done"} /\ Len(hp.samples) > 0 =>
        \A b \in 1..Len(hp.fft) :
            hp.masked[b] = IF (b - 1) * hp.sr < hp.cutoff * Len(hp.samples)
                           THEN [re |-> 0, im |-> 0]
                           ELSE hp.fft[b]

RlWindowTokens == RlTokens(RlBucket(rl.buckets, rl.window.ip, rl.now), rl.now)

CallEnvelope(i) ==
    CompEnvelopeAt(CompNormalize(call.samples, SeqMaxAbs(call.samples)), call.sr,
                   call.attack, call.release, i)

\* C15 (compressor gain bounds): for ratio >= 1 the gain computed from every
\* envelope value of the loop is above 0 and at most 1, and it is exactly 1
\* whenever the envelope is below knee_start = threshold_linear /
\* knee_width_linear.
C15_CompGainBounds ==
    /\ call.pc = "done" /\ call.stage = "apply_compression"
    /\ call.ratio >= SCALE /\ call.result.status = "returned"
    => \A i \in 0..(Len(call.samples) - 1) :
          LET envelope == CallEnvelope(i)
              gain == CompGain(envelope, DbToLinear(call.threshold), call.ratio)
          IN /\ gain > 0
             /\ gain <= SCALE
             /\ envelope < Div(DbToLinear(call.threshold), KneeWidthLinear) => gain = SCALE

\* C15 happens: a call with ratio 4 has returned in which the envelope was
\* below knee_start at one step, inside the knee at another and above
\* knee_end, where the gain is below 1, at a third.
C15_Witness ==
    /\ call.pc = "done" /\ call.stage = "apply_compression"
    /\ call.ratio > SCALE /\ call.result.status = "returned"
    /\ \E i, j, k \in 0..(Len(call.samples) - 1) :
          /\ CallEnvelope(i) < Div(DbToLinear(call.threshold), KneeWidthLinear)
          /\ CallEnvelope(j) >= Div(DbToLinear(call.threshold), KneeWidthLinear)
          /\ CallEnvelope(j) < Mul(DbToLinear(call.threshold), KneeWidthLinear)
          /\ CompGain(CallEnvelope(j), DbToLinear(call.threshold), call.ratio) < SCALE
          /\ CallEnvelope(k) >= Mul(DbToLinear(call.threshold), KneeWidthLinear)
          /\ CompGain(CallEnvelope(k), DbToLinear(call.threshold), call.ratio) < SCALE

\* The normalised samples and the linear ceiling of the limiter call.
LimSamplesNorm == Normalize(lim.samples, SeqMaxAbs(lim.samples))

LimCeilingLinear == DbToLinear(lim.ceiling)

\* C16 (limiter attack cap): at every step i of the loop at which the true
\* peak estimated at position i + lookahead_samples is above ceiling_linear,
\* the gain stored in gain_history[i] is at most ceiling_linear / true_peak.
C16_AttackCap ==
    lim.pc = "loop" =>
        \A i \in 0..(lim.i - 1) :
            LET true_peak == LimTruePeak(LimSamplesNorm, lim.sr, i)
            IN true_peak > LimCeilingLinear =>
                  lim.gain_history[i + 1] <= Div(LimCeilingLinear, true_peak)

\* C16 happens: at a step after the first the true peak was above the
\* ceiling, the blended value was above the required reduction, and the gain
\* stored is the required reduction.
C16_Witness ==
    /\ lim.pc = "loop"
    /\ \E i \in 1..(lim.i - 1) :
          LET true_peak == LimTruePeak(LimSamplesNorm, lim.sr, i)
              required_reduction == Div(LimCeilingLinear, true_peak)
          IN /\ true_peak > LimCeilingLinear
             /\ Blend(LimAttackCoeff(lim.sr), lim.gain_history[i], required_reduction)
                   > required_reduction
             /\ lim.gain_history[i + 1] = required_reduction

\* C17 (limiter gain clamp): every value of the gain curve lies in [0, 1],
\* in the loop and after the smoothing, for every input and every ceiling,
\* a ceiling above 0 dB included, and no output sample is larger in
\* magnitude than the input sample.
C17_GainClamp ==
    /\ lim.pc \in {"loop", "done"} =>
          \A k \in 1..Len(lim.gain_history) :
              lim.gain_history[k] >= 0 /\ lim.gain_history[k] <= SCALE
    /\ lim.pc = "done" =>
          \A k \in 1..Len(lim.output) : Abs(lim.output[k]) <= Abs(lim.samples[k])

\* C17 happens: a call with a ceiling above 0 dB has returned, the gain of
\* a sample is below 1 and the sample came out smaller than it went in.
C17_Witness ==
    /\ lim.pc = "done" /\ lim.ceiling > 0
    /\ \E k \in 1..Len(lim.gain_history) :
          /\ lim.gain_history[k] < SCALE
          /\ Abs(lim.output[k]) < Abs(lim.samples[k])

\* The running gain when the loop step i begins.
LimGainBefore(i) == IF i = 0 THEN SCALE ELSE lim.gain_history[i]

\* The level at the look-ahead position of step i is below 30 % of
\* ceiling_linear.
LimQuiet(i) == LimCurrentLevel(LimSamplesNorm, lim.sr, i) < (LimCeilingLinear * 3) \div 10

\* The steps 0 .. lim.i - 1 at which the true peak is at or below the ceiling
\* end with the gain blended towards 1 with the coefficient Coeff(i) chooses.
LimRecoversWith(Coeff(_)) ==
    lim.pc = "loop" =>
        \A i \in 0..(lim.i - 1) :
            LimTruePeak(LimSamplesNorm, lim.sr, i) <= LimCeilingLinear =>
                /\ lim.gain_history[i + 1]
                      = Min2(SCALE, Max2(0, Blend(Coeff(i), LimGainBefore(i), SCALE)))
                /\ lim.gain_history[i + 1] >= LimGainBefore(i)

LimCoeffByLevel(i) == IF LimQuiet(i) THEN LimRecoveryCoeff(lim.sr) ELSE LimReleaseCoeff(lim.sr)

LimCoeffByLevelAndGain(i) ==
    IF LimQuiet(i) /\ LimGainBefore(i) * 100 < 99 * SCALE
    THEN LimRecoveryCoeff(lim.sr)
    ELSE LimReleaseCoeff(lim.sr)

\* C18 (limiter recovery selection): at every step where the true peak is at
\* or below the ceiling the gain moves towards 1, with recovery_coeff if the
\* level at the look-ahead position is below 30 % of ceiling_linear and with
\* release_coeff otherwise; the choice depends on that level alone.
C18_RecoveryByLevel == LimRecoversWith(LimCoeffByLevel)

\* C18, amended: at every step where the true peak is at or below the
\* ceiling the gain moves towards 1, with recovery_coeff if the level at the
\* look-ahead position is below 30 % of ceiling_linear and the running gain
\* is below 0.99, and with release_coeff otherwise.
C18_RecoverySelection == LimRecoversWith(LimCoeffByLevelAndGain)

\* C18 happens: at a quiet step with the running gain below 0.99 the gain
\* rose by the recovery blend, which is more than the release blend.
C18_Witness ==
    /\ lim.pc = "loop"
    /\ \E i \in 1..(lim.i - 1) :
          /\ LimTruePeak(LimSamplesNorm, lim.sr, i) <= LimCeilingLinear
          /\ LimQuiet(i) /\ LimGainBefore(i) * 100 < 99 * SCALE
          /\ lim.gain_history[i + 1] = Blend(LimRecoveryCoeff(lim.sr), LimGainBefore(i), SCALE)
          /\ lim.gain_history[i + 1] > Blend(LimReleaseCoeff(lim.sr), LimGainBefore(i), SCALE)

\* The reduction factors of the triggered windows that cover the zero-based
\* sample position j.
DeesFactorsOver(j) ==
    {r.reduction_factor : r \in {q \in dees.reductions : j \in DeesWindowRange(q.i)}}

\* The least member of a non-empty set of integers.
SetMin(S) == CHOOSE x \in S : \A y \in S : x <= y

\* Before smoothing, every gain is the least reduction factor of the
\* triggered windows over its sample, and 1 where there is none.
DeesGainIsMinimum ==
    dees.pc = "loop" =>
        \A j \in 0..(Len(dees.samples) - 1) :
            dees.gain_reduction[j + 1]
                = IF DeesFactorsOver(j) = {} THEN SCALE ELSE SetMin(DeesFactorsOver(j))

\* A window of the loop leaves no gain above what it was.
DeesGainNeverRaised ==
    dees.pc = "loop" /\ dees'.pc = "loop" =>
        \A k \in 1..Len(dees.samples) : dees'.gain_reduction[k] <= dees.gain_reduction[k]

\* C19 (de-esser overlap rule): before smoothing, the gain at sample j is the
\* minimum reduction_factor over the triggered analysis windows that cover
\* j, and 1 if no triggered window covers j; a later window never raises a
\* gain that an earlier window lowered.
C19_OverlapMinimum == []DeesGainIsMinimum /\ [][DeesGainNeverRaised]_vars

\* C19 happens: a sample lies in two triggered windows, the later of which
\* computed the larger reduction_factor, and its gain is the smaller one.
C19_Witness ==
    /\ dees.pc = "loop"
    /\ \E p \in dees.reductions : \E q \in dees.reductions :
          /\ p.i < q.i /\ p.reduction_factor < q.reduction_factor
          /\ \E j \in DeesWindowRange(p.i) \cap DeesWindowRange(q.i) :
                dees.gain_reduction[j + 1] = p.reduction_factor

\* The one-based bin b of the call's transform lies in 5-10 kHz.
FdeInBand(b) ==
    /\ (b - 1) * fde.sr >= 5000 * Len(fde.samples)
    /\ (b - 1) * fde.sr <= 10000 * Len(fde.samples)

\* C20 (FFT de-esser): every bin in 5-10 kHz whose magnitude exceeds the
\* threshold is multiplied by 10^(reduction_db/20) in the spectrum that is
\* inverse-transformed and returned; the bins outside 5-10 kHz and those at
\* or below the threshold are unchanged.
C20_SibilanceReduced ==
    /\ fde.pc \in {"reduced", "done"} =>
          \A b \in 1..Len(fde.fft) :
              fde.spectrum[b]
                  = IF FdeInBand(b) /\ BinAbove(fde.fft[b], fde.threshold_db)
                    THEN BinReduced(fde.fft[b], fde.reduction_db)
                    ELSE fde.fft[b]
    /\ fde.pc = "done" /\ Len(fde.spectrum) >= 2 =>
          fde.result = Returned(Irfft(fde.spectrum))

\* The data of stage s in the project file f, {} if f has no such stage.
OrchStageData(f, s) == IF f.kind = "json" /\ s \in DOMAIN f.stages THEN f.stages[s] ELSE <<>>

\* The project file after is what update_stage(s, p) makes of the file
\* before.
OrchMergedInto(before, after, s, p) ==
    /\ after.kind = "json"
    /\ after.session_id = session_id /\ after.user_id = user_id
    /\ DOMAIN after.stages[s] = (DOMAIN OrchStageData(before, s)) \cup (DOMAIN p)
    /\ \A k \in DOMAIN after.stages[s] :
          after.stages[s][k] = IF k \in DOMAIN p THEN p[k] ELSE OrchStageData(before, s)[k]
    /\ IF before.kind = "absent"
       THEN DOMAIN after.stages = {s} /\ after.stages[s] = p
       ELSE /\ DOMAIN after.stages = (DOMAIN before.stages) \cup {s}
            /\ \A t \in (DOMAIN before.stages) \ {s} : after.stages[t] = before.stages[t]
            /\ after.created_at = before.created_at

\* C21 (update_stage merges): when update_stage(stage, payload) returns, the
\* persisted data of the stage is its previous data with the payload's keys
\* overriding, every other stage and created_at are as before, session_id
\* and user_id are the orchestrator's; with no project before, the project
\* is new and its only stage holds exactly the payload.
C21_UpdateStageMerges ==
    [][~orch.threads /\ orch.loop.pc = "dump" =>
          /\ orch'.loop.result = "returned"
          /\ OrchMergedInto(orch.loop.before, orch'.file,
                            orch.loop.stage_name, orch.loop.payload)]_vars

\* C21 happens: update_stage has returned on a project that held another
\* stage and, for this stage, a key the payload overrode and a key it left.
C21_Witness ==
    /\ ~orch.threads /\ orch.loop.result = "returned"
    /\ orch.loop.pc = "idle" /\ orch.worker.pc = "idle" /\ orch.worker.result = "none"
    /\ orch.loop.before.kind = "json" /\ orch.file.kind = "json"
    /\ DOMAIN orch.loop.before.stages = OrchStages
    /\ LET old == orch.loop.before.stages[orch.loop.stage_name]
           new == orch.file.stages[orch.loop.stage_name]
       IN /\ \E k \in (DOMAIN old) \cap (DOMAIN orch.loop.payload) : old[k] # new[k]
          /\ \E k \in (DOMAIN old) \ (DOMAIN orch.loop.payload) : old[k] = new[k]

\* C28 (no lost project updates under concurrency): when an update_stage on
\* the event loop and a reset_project in a worker thread have overlapped and
\* both are over, both have returned and project.json holds what one of the
\* two serial orders leaves: no stage (the reset last) or the one stage with
\* exactly the payload (the update last).
C28_SerialOutcome ==
    /\ orch.threads /\ orch.loop.pc = "idle" /\ orch.worker.pc = "idle"
    /\ Len(orch.busy.updates) = 1 /\ orch.busy.resets = 1
    => /\ orch.loop.result = "returned" /\ orch.worker.result = "returned"
       /\ orch.file.kind = "json"
       /\ \/ DOMAIN orch.file.stages = {}
          \/ /\ DOMAIN orch.file.stages = {orch.busy.updates[1].stage_name}
             /\ orch.file.stages[orch.busy.updates[1].stage_name] = orch.busy.updates[1].payload

\* C22 (voice debounce): for every key, a call of should_speak that returns
\* True is at least 10 seconds after the last one that did; a call that
\* returns False leaves the stored timestamps as they were; and a call made
\* 10 seconds or more after the last accepted call returns True.
C22_VoiceDebounce ==
    [][voice'.calls = voice.calls + 1 =>
          LET key == voice'.last.key
              known == key \in DOMAIN voice.accepted
              since == (voice.now - voice.accepted[key]) * VoiceTimeUnit
          IN /\ voice'.last.spoke /\ known => since >= 10
             /\ ~voice'.last.spoke => voice'.cache = voice.cache
             /\ known /\ since >= 10 => voice'.last.spoke]_vars

\* C22 happens: three calls were made with one key; the first was accepted
\* at the first reading of the clock, the second was refused, and the third,
\* made exactly 10 seconds after the first, was accepted.
C22_Witness ==
    /\ voice.calls = 3 /\ voice.last.spoke
    /\ voice.last.now * VoiceTimeUnit = VoiceFirstTime * VoiceTimeUnit + 10
    /\ DOMAIN voice.cache = {voice.last.key}

\* The string s begins with the characters "./".
DotSlash(s) == Len(s) >= 2 /\ s[1] = "." /\ s[2] = "/"

\* The number of "/" the string s begins with.
LeadingSlashes(s) ==
    CHOOSE n \in 0..Len(s) : (\A i \in 1..n : s[i] = "/") /\ (n = Len(s) \/ s[n + 1] # "/")

\* C23 (media path resolution): the resolved path starts with "./"; an input
\* starting with "/media/" resolves to "." + input, an input starting with
\* "./" to itself, any other input to "./" + input without its leading "/";
\* resolving a resolved path returns it unchanged.
C23_PathResolution ==
    /\ path.pc \in {"resolved", "done"} =>
          /\ DotSlash(path.resolved)
          /\ path.resolved =
                IF Len(path.input) >= 7 /\ SubSeq(path.input, 1, 7) = MediaPrefix
                THEN <<".">> \o path.input
                ELSE IF DotSlash(path.input) THEN path.input
                ELSE <<".", "/">> \o SubSeq(path.input, LeadingSlashes(path.input) + 1,
                                            Len(path.input))
    /\ path.pc = "done" => path.again = path.resolved

\* C23 happens: an input that begins with two "/" and is not a media path
\* has been resolved, twice.
C23_Witness ==
    /\ path.pc = "done" /\ LeadingSlashes(path.input) = 2 /\ Len(path.input) = 3
    /\ path.resolved = <<".", "/", path.input[3]>>
    /\ path.again = path.resolved

\* C24 (free-tier project limit): after any sequence of saves, with or
\* without a projectId, a user on the free plan has at most one project
\* file; a save that would create a second one is answered with 403 and
\* writes nothing.
C24_FreeTierOneProject ==
    proj.plan = "free" =>
        /\ Cardinality(proj.files) <= 1
        /\ proj.saves > 0 /\ Cardinality(proj.last.before \cup {proj.last.project_id}) > 1
              => proj.last.status = 403 /\ proj.files = proj.last.before

\* C25 (compressor gain is monotone): for a threshold and a ratio >= 1, of
\* two envelope values of the loop the larger never gets the larger gain,
\* the boundaries knee_start and knee_end included.
C25_CompGainMonotone ==
    /\ call.pc = "done" /\ call.stage = "apply_compression"
    /\ call.ratio >= SCALE /\ call.result.status = "returned"
    => \A i, j \in 0..(Len(call.samples) - 1) :
          CallEnvelope(i) <= CallEnvelope(j) =>
              CompGain(CallEnvelope(i), DbToLinear(call.threshold), call.ratio)
                  >= CompGain(CallEnvelope(j), DbToLinear(call.threshold), call.ratio)

\* C26 (de-esser window coverage): in a buffer longer than one window every
\* sample index lies inside at least one analysis window of the loop.
C26_WindowCoverage ==
    dees.pc = "loop" /\ Len(dees.samples) > DeesWindowSize(dees.sr) =>
        \A j \in 0..(Len(dees.samples) - 1) :
            \E w \in 1..Len(DeesWindowStarts(Len(dees.samples), dees.sr)) :
                j \in DeesWindowRange(DeesWindowStarts(Len(dees.samples), dees.sr)[w])

\* C27 (pipeline completion): on a voiced vocal every stage call of
\* process_vocal, with the keyword arguments written there and the functions
\* imported from its package, is accepted and returns, and the call ends
\* after its last statement, normalize.
C27_PipelineCompletes ==
    Voiced /\ mix.dsp.status # "none" =>
        /\ mix.dsp.status # "raised"
        /\ mix.next <= Len(Chain) => Accepts(Chain[mix.next])
        /\ mix.pc = "done" => mix.ran # <<>> /\ mix.ran[Len(mix.ran)] = "normalize"

\* Every stored bucket holds at least 0 tokens and at most the capacity.
RlBucketsInBounds ==
    \A ip \in DOMAIN rl.buckets :
        rl.buckets[ip].tokens >= 0 /\ rl.buckets[ip].tokens <= requests_per_minute * TokenUnit

\* A request of the observed client passes only with a refilled count of 1
\* or more, is answered with 429 only with less, and then changes no bucket.
RlRejectsBelowOne ==
    LET bucket == RlBucket(rl.buckets, rl.window.ip, rl.now)
        refilled == Min2(requests_per_minute * TokenUnit,
                         bucket.tokens
                         + (Max2(0, rl.now - bucket.last_refill) * requests_per_minute * TokenUnit)
                           \div refill_time_window)
    IN /\ rl'.window.passed > rl.window.passed => refilled >= TokenUnit
       /\ rl'.window.refused > rl.window.refused =>
             refilled < TokenUnit /\ rl'.buckets = rl.buckets

\* C29 (token bucket bounds): after any requests at any clock readings,
\* equal or decreasing ones included, every stored bucket has 0 <= tokens <=
\* capacity; a request is answered with 429 exactly when the refilled count
\* is below 1, and then every bucket is left as it was.
C29_BucketBounds == []RlBucketsInBounds /\ [][RlRejectsBelowOne]_vars

\* C29 happens: after the clock was set back behind the last refill of the
\* observed client, its bucket is empty and a request of it was answered
\* with 429, next to the bucket of another client.
C29_Witness ==
    /\ rl.window.refused = 1
    /\ DOMAIN rl.buckets = RlClients
    /\ rl.buckets[rl.window.ip].tokens < TokenUnit
    /\ rl.buckets[rl.window.ip].last_refill > rl.now

====
